---- MODULE Spec2Model ----
(***************************************************************************)
(* Model of the sniper ("whale") strategy of kalshi_bot:                   *)
(*   scanner.scan             raw quotes -> tiered, qualified candidates    *)
(*   whale.run_whale_strategy risk gate, filters, ranking, candidate loop   *)
(* Prices are integer cents, hours are whole hours, spread_pct is kept in  *)
(* hundredths of a percent (the code rounds it to two decimals).           *)
(***************************************************************************)
EXTENDS Integers, Sequences, FiniteSets, TLC

\* ------------------------------------------------------------------ bounds
\* longest market list one fetch returns
MaxMarkets == 2
\* largest hours_left given to an _within_expiry evaluation
MaxHoursLeft == 25
\* rounds of the web control loop followed
MaxRounds == 2
\* _bg_refresh_loop threads that can be started
MaxThreads == 2
\* threads that call _fetch_all_markets at the same time
MaxCallers == 2
\* control_start requests handled at the same time, and runner threads that
\* exist at the same time
MaxRequests == 2
MaxRunners == 2
\* longest quote list handed to one scan of the scan specification
MaxQuotes == 3
\* time.time() when the process starts, the step of the clock and its last
\* value, in seconds
ClockStart == 1000
ClockStep == 60
ClockEnd == 1300

\* ------------------------------------------------------- program constants
QUALIFIED_MIN_DOLLAR_24H == 10000
QUALIFIED_MAX_SPREAD_PCT == 500
QUALIFIED_TOP_N_DOLLAR == 200
QUALIFIED_MAX_HOURS == 24
\* hours_until_close(raw) = None
HrsNone == -1
\* run_whale_strategy defaults
DefaultMinPrice == 95
DefaultMinVolume == 10000
DefaultMaxPositions == 10
DefaultMaxHours == 2
WebMaxHours == 24
ScanTopN == 500
\* top_n default of scan (scanner.py 264)
ScanDefaultTopN == 30
PriceCeiling == 98
\* _market_cache["ttl"] (scanner.py 15), seconds
MARKET_CACHE_TTL == 300
CRYPTO_TTL == 120
TightSpreadPct == 250
TightSpreadHours == 10
HoursNoneRank == 9999
MaxMovePct == 10
MinConfidence == 75

\* ------------------------------------------------------------ small helpers
Range(s) == { s[i] : i \in DOMAIN s }

Min(a, b) == IF a <= b THEN a ELSE b

\* sequences without repetition over set S, of length at most n
RECURSIVE DistinctSeqs(_, _)
DistinctSeqs(S, n) ==
  IF n = 0 THEN { <<>> }
  ELSE LET prev == DistinctSeqs(S, n - 1)
       IN prev \cup UNION { { Append(q, x) : x \in S \ Range(q) } :
                            q \in { r \in prev : Len(r) = n - 1 } }

\* list.sort / sorted: a stable sort; Less is the strict order of the keys.
\* The element at input index i lands behind every element with a smaller
\* key and behind the elements with an equal key that precede it.
StableSort(s, Less(_, _)) ==
  LET pos(i) == 1 + Cardinality({ j \in DOMAIN s :
                     Less(s[j], s[i]) \/ (~Less(s[i], s[j]) /\ j < i) })
  IN [k \in DOMAIN s |-> s[CHOOSE i \in DOMAIN s : pos(i) = k]]

\* ----------------------------------------------------------- quote universe
\* Slimmed market dicts as _fetch_all_markets builds them; hours stands for
\* hours_until_close(close_time) at the time of the scan.
MktA == [ticker |-> "KXNBA-26-MIA", event_ticker |-> "KXNBA-26",
         volume_24h |-> 30000, yes_bid |-> 97, yes_ask |-> 98,
         no_bid |-> 2, no_ask |-> 3, hours |-> 1]
MktB == [ticker |-> "KXNFL-26-TB", event_ticker |-> "KXNFL-26",
         volume_24h |-> 30000, yes_bid |-> 97, yes_ask |-> 98,
         no_bid |-> 2, no_ask |-> 3, hours |-> 1]
MktC == [ticker |-> "KXBTC-26JAN3021-B84125", event_ticker |-> "KXBTC-26JAN3021",
         volume_24h |-> 20000, yes_bid |-> 3, yes_ask |-> 0,
         no_bid |-> 96, no_ask |-> 97, hours |-> 1]
MktD == [ticker |-> "KXHIGHNY-26-T50", event_ticker |-> "KXHIGHNY-26",
         volume_24h |-> 15000, yes_bid |-> 95, yes_ask |-> 96,
         no_bid |-> 4, no_ask |-> 5, hours |-> 1]
MktE == [ticker |-> "KXNBA-26-LAL", event_ticker |-> "KXNBA-26",
         volume_24h |-> 10000, yes_bid |-> 96, yes_ask |-> 98,
         no_bid |-> 2, no_ask |-> 4, hours |-> 30]
MktF == [ticker |-> "KXNBA-26-BOS", event_ticker |-> "KXNBA-26",
         volume_24h |-> 30000, yes_bid |-> 96, yes_ask |-> 97,
         no_bid |-> 3, no_ask |-> 4, hours |-> 1]
MktG == [ticker |-> "KXETH-26JAN3021-T3000", event_ticker |-> "KXETH-26JAN3021",
         volume_24h |-> 20000, yes_bid |-> 96, yes_ask |-> 97,
         no_bid |-> 3, no_ask |-> 4, hours |-> 3]
Markets == { MktA, MktB, MktC, MktD, MktE, MktF, MktG }
\* further quotes for the scan specification: an ask of 99 with no quote on
\* the other side, a spread above 5%, no close time, a close time that has
\* passed, two different volumes with the same dollar volume, and a volume
\* below every min_volume
MktX == [ticker |-> "KXNBA-26-NYK", event_ticker |-> "KXNBA-26",
         volume_24h |-> 50000, yes_bid |-> 98, yes_ask |-> 99,
         no_bid |-> 0, no_ask |-> 0, hours |-> 1]
MktW == [ticker |-> "KXNFL-26-KC", event_ticker |-> "KXNFL-26",
         volume_24h |-> 10000, yes_bid |-> 90, yes_ask |-> 96,
         no_bid |-> 4, no_ask |-> 10, hours |-> 0]
MktN == [ticker |-> "KXHIGHNY-26-T60", event_ticker |-> "KXHIGHNY-26",
         volume_24h |-> 30000, yes_bid |-> 97, yes_ask |-> 98,
         no_bid |-> 2, no_ask |-> 3, hours |-> -1]
MktP == [ticker |-> "KXNFL-26-SF", event_ticker |-> "KXNFL-26",
         volume_24h |-> 49000, yes_bid |-> 95, yes_ask |-> 96,
         no_bid |-> 4, no_ask |-> 5, hours |-> 24]
MktQ == [ticker |-> "KXNBA-26-DEN", event_ticker |-> "KXNBA-26",
         volume_24h |-> 48000, yes_bid |-> 97, yes_ask |-> 98,
         no_bid |-> 2, no_ask |-> 3, hours |-> 2]
MktL == [ticker |-> "KXNFL-26-NYJ", event_ticker |-> "KXNFL-26",
         volume_24h |-> 5000, yes_bid |-> 97, yes_ask |-> 98,
         no_bid |-> 2, no_ask |-> 3, hours |-> 1]
\* a quote without a yes bid and a crossed quote (ask below bid)
MktZ == [ticker |-> "KXNBA-26-PHX", event_ticker |-> "KXNBA-26",
         volume_24h |-> 20000, yes_bid |-> 0, yes_ask |-> 97,
         no_bid |-> 0, no_ask |-> 0, hours |-> 1]
MktK == [ticker |-> "KXNFL-26-DAL", event_ticker |-> "KXNFL-26",
         volume_24h |-> 20000, yes_bid |-> 98, yes_ask |-> 97,
         no_bid |-> 3, no_ask |-> 2, hours |-> 1]
ScanQuotes == { MktA, MktB, MktC, MktE, MktX, MktW, MktN, MktP, MktQ, MktL, MktZ, MktK }
MarketLists == DistinctSeqs(Markets, MaxMarkets)

\* str.startswith on the event tickers above, for the prefix literals the
\* program tests
PrefixesOf(s) ==
  CASE s = "KXNBA-26" -> { "KXNBA" }
    [] s = "KXNFL-26" -> { "KXNFL" }
    [] s = "KXBTC-26JAN3021" -> { "KXBTC" }
    [] s = "KXETH-26JAN3021" -> { "KXETH" }
    [] s = "KXHIGHNY-26" -> { "KXHIGH" }
    [] OTHER -> {}
StartsWith(s, p) == p \in PrefixesOf(s)

\* ------------------------------------------------------------------ scanner
\* the tier boundaries one cent lower
AssignTierShifted(ask_price) ==
  IF ask_price >= 98 THEN 0
  ELSE IF ask_price = 97 THEN 1
  ELSE IF ask_price >= 95 THEN 2
  ELSE 3

_assign_tier(ask_price) ==
  IF ask_price >= 99 THEN 0
  ELSE IF ask_price = 98 THEN 1
  ELSE IF ask_price >= 96 THEN 2
  ELSE 3

\* round(x, 2) of num/den, in hundredths: nearest, ties to even
RoundHalfEven(num, den) ==
  LET q == num \div den
      r == num % den
  IN IF 2 * r < den THEN q
     ELSE IF 2 * r > den THEN q + 1
     ELSE IF q % 2 = 0 THEN q ELSE q + 1

\* the spread without the test for a crossed quote
CalcSpreadUncrossed(bid, ask) ==
  IF bid = 0 \/ ask = 0 THEN 0
  ELSE RoundHalfEven(20000 * (IF ask >= bid THEN ask - bid ELSE bid - ask), bid + ask)

\* round(_calc_spread_pct(bid, ask), 2) * 100
_calc_spread_pct(bid, ask) ==
  IF bid = 0 \/ ask = 0 \/ ask <= bid THEN 0
  ELSE RoundHalfEven(20000 * (ask - bid), bid + ask)

\* the result dict scan appends for one market that passed the price test
MakeResult(m, side, bid, ask, yes_bid, no_bid) ==
  [ticker |-> m.ticker, event_ticker |-> m.event_ticker,
   signal_side |-> side, signal_price |-> bid, signal_ask |-> ask,
   volume_24h |-> m.volume_24h,
   dollar_24h |-> (m.volume_24h * ask) \div 100,
   yes_bid |-> yes_bid, no_bid |-> no_bid,
   tier |-> _assign_tier(ask),
   spread_pct |-> _calc_spread_pct(bid, ask),
   hours_left |-> m.hours]

\* body of the "for m in candidates" loop of scan: the results of one market
\* (none or one)
ScanOne(m, min_price, prefixes, min_volume) ==
  LET yes_ask == IF m.yes_ask = 0 /\ m.no_bid # 0 THEN 100 - m.no_bid ELSE m.yes_ask
      no_ask  == IF m.no_ask = 0 /\ m.yes_bid # 0 THEN 100 - m.yes_bid ELSE m.no_ask
  IN IF prefixes # {} /\ ~(\E p \in prefixes : StartsWith(m.event_ticker, p)) THEN <<>>
     ELSE IF m.volume_24h < min_volume THEN <<>>
     ELSE IF yes_ask # 0 /\ min_price <= yes_ask /\ yes_ask <= 98
       THEN << MakeResult(m, "yes", m.yes_bid, yes_ask, m.yes_bid, m.no_bid) >>
     ELSE IF no_ask # 0 /\ min_price <= no_ask /\ no_ask <= 98
       THEN << MakeResult(m, "no", m.no_bid, no_ask, m.yes_bid, m.no_bid) >>
     ELSE <<>>

RECURSIVE ScanLoop(_, _, _, _)
ScanLoop(ms, min_price, prefixes, min_volume) ==
  IF ms = <<>> THEN <<>>
  ELSE ScanOne(Head(ms), min_price, prefixes, min_volume)
       \o ScanLoop(Tail(ms), min_price, prefixes, min_volume)

VolumeDesc(a, b) == a.volume_24h > b.volume_24h
\* the dollar ranking turned upside down
DollarAscending(a, b) == a.dollar_24h < b.dollar_24h
DollarDesc(a, b) == a.dollar_24h > b.dollar_24h

\* dollar_ranks[r["ticker"]]: a dict keyed by ticker, so the last entry of
\* by_dollar with that ticker decides
DollarRank(by_dollar, ticker) ==
  CHOOSE k \in DOMAIN by_dollar :
    /\ by_dollar[k].ticker = ticker
    /\ \A j \in DOMAIN by_dollar : by_dollar[j].ticker = ticker => j <= k

\* fail_reasons that stop at the first failing test
FailReasonsFirstOnly(r, rank) ==
  IF ~(r.tier > 0) THEN << "tier0" >>
  ELSE IF ~(rank <= QUALIFIED_TOP_N_DOLLAR) THEN << "rank" >>
  ELSE IF ~(r.dollar_24h >= QUALIFIED_MIN_DOLLAR_24H) THEN << "volume" >>
  ELSE IF ~(r.spread_pct <= QUALIFIED_MAX_SPREAD_PCT) THEN << "spread" >>
  ELSE IF ~(r.hours_left # HrsNone /\ 0 < r.hours_left
            /\ r.hours_left <= QUALIFIED_MAX_HOURS) THEN << "expiry" >>
  ELSE <<>>

\* fail_reasons of one result with its rank, in the order the code appends
FailReasons(r, rank) ==
  IF ~(r.tier > 0) THEN << "tier0" >>
  ELSE (IF ~(rank <= QUALIFIED_TOP_N_DOLLAR) THEN << "rank" >> ELSE <<>>)
    \o (IF ~(r.dollar_24h >= QUALIFIED_MIN_DOLLAR_24H) THEN << "volume" >> ELSE <<>>)
    \o (IF ~(r.spread_pct <= QUALIFIED_MAX_SPREAD_PCT) THEN << "spread" >> ELSE <<>>)
    \o (IF ~(r.hours_left # HrsNone /\ 0 < r.hours_left
             /\ r.hours_left <= QUALIFIED_MAX_HOURS) THEN << "expiry" >> ELSE <<>>)

Qualify(r, rank) ==
  LET fr == FailReasons(r, rank)
  IN [ticker |-> r.ticker, event_ticker |-> r.event_ticker,
      signal_side |-> r.signal_side, signal_price |-> r.signal_price,
      signal_ask |-> r.signal_ask, volume_24h |-> r.volume_24h,
      dollar_24h |-> r.dollar_24h, yes_bid |-> r.yes_bid, no_bid |-> r.no_bid,
      tier |-> r.tier, spread_pct |-> r.spread_pct, hours_left |-> r.hours_left,
      dollar_rank |-> rank, fail_reasons |-> fr,
      qualified |-> (r.tier > 0 /\ Len(fr) = 0)]

\* key of the final results.sort of scan
ResultLess(a, b) ==
  LET qa == IF a.qualified THEN 0 ELSE 1
      qb == IF b.qualified THEN 0 ELSE 1
  IN \/ qa < qb
     \/ qa = qb /\ a.tier < b.tier
     \/ qa = qb /\ a.tier = b.tier /\ a.signal_price > b.signal_price
     \/ qa = qb /\ a.tier = b.tier /\ a.signal_price = b.signal_price
        /\ a.dollar_24h > b.dollar_24h
     \/ qa = qb /\ a.tier = b.tier /\ a.signal_price = b.signal_price
        /\ a.dollar_24h = b.dollar_24h /\ a.spread_pct < b.spread_pct

\* results of scan after the qualification loop (396-436), still in the
\* order the candidate loop appended them
ScanRanked(all_markets, min_price, prefixes, min_volume, top_n) ==
  LET sorted == StableSort(all_markets, VolumeDesc)
      candidates == SubSeq(sorted, 1, Min(top_n, Len(sorted)))
      results == ScanLoop(candidates, min_price, prefixes, min_volume)
      by_dollar == StableSort(results, DollarDesc)
  IN [i \in DOMAIN results |->
        Qualify(results[i], DollarRank(by_dollar, results[i].ticker))]

\* scan(), from the fetched market list to the sorted result list
scan(all_markets, min_price, prefixes, min_volume, top_n) ==
  StableSort(ScanRanked(all_markets, min_price, prefixes, min_volume, top_n),
             ResultLess)

\* ------------------------------------------------------------------ helpers
\* ticker.split("-"): the first character of each part and float(part[1:]),
\* NotNum when float() raises ValueError
NotNum == -1
TickerParts(ticker) ==
  CASE ticker = "KXNBA-26-MIA" ->
         << [head |-> "K", num |-> NotNum], [head |-> "2", num |-> 6],
            [head |-> "M", num |-> NotNum] >>
    [] ticker = "KXNFL-26-TB" ->
         << [head |-> "K", num |-> NotNum], [head |-> "2", num |-> 6],
            [head |-> "T", num |-> NotNum] >>
    [] ticker = "KXBTC-26JAN3021-B84125" ->
         << [head |-> "K", num |-> NotNum], [head |-> "2", num |-> NotNum],
            [head |-> "B", num |-> 84125] >>
    [] ticker = "KXHIGHNY-26-T50" ->
         << [head |-> "K", num |-> NotNum], [head |-> "2", num |-> 6],
            [head |-> "T", num |-> 50] >>
    [] ticker = "KXNBA-26-LAL" ->
         << [head |-> "K", num |-> NotNum], [head |-> "2", num |-> 6],
            [head |-> "L", num |-> NotNum] >>
    [] ticker = "KXNBA-26-BOS" ->
         << [head |-> "K", num |-> NotNum], [head |-> "2", num |-> 6],
            [head |-> "B", num |-> NotNum] >>
    [] ticker = "KXETH-26JAN3021-T3000" ->
         << [head |-> "K", num |-> NotNum], [head |-> "2", num |-> NotNum],
            [head |-> "T", num |-> 3000] >>
    [] OTHER -> <<>>

\* extract_strike_price: the last part that starts with T or B and whose
\* rest parses as a number; NotNum stands for None
extract_strike_price(ticker) ==
  LET parts == TickerParts(ticker)
      hits == { i \in DOMAIN parts :
                  parts[i].head \in { "T", "B" } /\ parts[i].num # NotNum }
  IN IF hits = {} THEN NotNum
     ELSE parts[CHOOSE i \in hits : \A j \in hits : j <= i].num

\* str.upper on the side and advisor strings
Upper(s) ==
  CASE s = "yes" -> "YES"
    [] s = "no" -> "NO"
    [] s = "Yes" -> "YES"
    [] OTHER -> s

\* faulty variant: the contract count rounded up instead of down
CalculatePositionRoundedUp(balance, price) ==
  IF price <= 0 \/ balance <= 0 THEN 0
  ELSE (balance + 100 * price - 1) \div (100 * price)

\* sizing.calculate_position with risk_pct = 0.01:
\* floor(balance_cents * 0.01 / price_cents)
calculate_position(balance, price) ==
  IF price <= 0 \/ balance <= 0 THEN 0
  ELSE LET contracts == balance \div (100 * price)
       IN IF contracts > 0 THEN contracts ELSE 0

\* int(balance_cents * daily_loss_pct) with daily_loss_pct = 0.05
MaxDailyLoss(balance) == (balance * 5) \div 100

\* str.__contains__ for the asset tests of the directional gate
Contains(s, sub) ==
  CASE sub = "BTC" -> StartsWith(s, "KXBTC")
    [] sub = "ETH" -> StartsWith(s, "KXETH")
    [] OTHER -> FALSE

\* ------------------------------------------------------------ velocity gate
\* a candle of the chosen side: end_period_ts and the open/close of its
\* <side>_ask dict; NoPrice stands for a missing key or None
NoPrice == -1
Falsy(x) == x = NoPrice \/ x = 0
TsLess(a, b) == a.ts < b.ts

\* body of the try block of _check_price_velocity, given the candles the
\* exchange returned: TRUE when the ask rose more than max_move_pct
VelocitySpike(candles_in, current_ask) ==
  IF candles_in = <<>> THEN FALSE
  ELSE
    LET candles == StableSort(candles_in, TsLess)
        n == Len(candles)
        prior_ref == IF n >= 2
                     THEN (IF ~Falsy(candles[n - 1].close) THEN candles[n - 1].close
                           ELSE candles[n - 1].open)
                     ELSE NoPrice
        ref_price == IF prior_ref = NoPrice THEN candles[n].open ELSE prior_ref
    IN IF Falsy(ref_price) \/ ref_price <= 0 THEN FALSE
       ELSE (current_ask - ref_price) * 100 > MaxMovePct * ref_price

\* faulty variant: an exception inside the try block counts as a spike
VelocityFailsClosed(fetch_ok, candles_in, current_ask) ==
  IF ~fetch_ok THEN TRUE ELSE VelocitySpike(candles_in, current_ask)

\* _check_price_velocity: any exception inside the try block gives False
_check_price_velocity(fetch_ok, candles_in, current_ask) ==
  IF ~fetch_ok THEN FALSE ELSE VelocitySpike(candles_in, current_ask)

CandleLists ==
  { <<>>,
    << [ts |-> 1, open |-> 80, close |-> 97] >>,
    << [ts |-> 2, open |-> 97, close |-> 97], [ts |-> 1, open |-> 80, close |-> 85] >>,
    << [ts |-> 1, open |-> 96, close |-> 96], [ts |-> 2, open |-> 97, close |-> 97] >>,
    << [ts |-> 1, open |-> NoPrice, close |-> NoPrice], [ts |-> 2, open |-> 96, close |-> 97] >> }

\* ------------------------------------------------------ environment domains
\* balances the exchange reports (cents)
Balances == { 0, 10, 9600, 29000 }
\* realized loss of today the Store reports (cents)
Losses == { 0, 1450, 2000 }
\* live ask of the chosen side at the re-check
LiveAsks == { 94, 98, 99 }
\* spot price in dollars of fetch_crypto_context()[asset_key]; NoPrice when
\* the key is absent
Spots(asset_key) ==
  IF asset_key = "btc_usd" THEN { NoPrice, 80000, 84125, 90000 }
  ELSE { NoPrice, 2900, 3100 }
\* advisor results as analyze_market returns them. answered tells where the
\* dict came from: TRUE for the advisor's JSON reply parsed by _parse_response
\* (ai.py 252-259), FALSE for _DEFAULT_RESULT (no key, no package, failed
\* request), whose confidence 0 stands for "no confidence given"
AIResults ==
  { [answered |-> FALSE, expected_outcome |-> "", confidence |-> 0,
     should_trade |-> TRUE],
    [answered |-> TRUE, expected_outcome |-> "Yes", confidence |-> 90,
     should_trade |-> TRUE],
    [answered |-> TRUE, expected_outcome |-> "NO", confidence |-> 90,
     should_trade |-> TRUE],
    [answered |-> TRUE, expected_outcome |-> "UNKNOWN", confidence |-> 60,
     should_trade |-> TRUE],
    [answered |-> TRUE, expected_outcome |-> "YES", confidence |-> 80,
     should_trade |-> FALSE],
    [answered |-> TRUE, expected_outcome |-> "UNKNOWN", confidence |-> 0,
     should_trade |-> TRUE] }

DefaultPrefixes == { "KXNFL", "KXNBA", "KXBTC", "KXETH" }

\* keyword arguments of one invocation, by caller: the web control loop
\* (web.py control_start), the CLI command (commands.py whale_trade, which
\* also passes tier1_only) and a call with the defaults of the signature
ArgSets ==
  { [caller |-> "cli", prefixes |-> DefaultPrefixes, min_price |-> DefaultMinPrice,
     min_volume |-> DefaultMinVolume, max_positions |-> DefaultMaxPositions,
     dry_run |-> TRUE, max_hours |-> DefaultMaxHours, has_stop |-> FALSE,
     with_ai |-> TRUE],
    [caller |-> "direct", prefixes |-> DefaultPrefixes, min_price |-> DefaultMinPrice,
     min_volume |-> DefaultMinVolume, max_positions |-> DefaultMaxPositions,
     dry_run |-> TRUE, max_hours |-> DefaultMaxHours, has_stop |-> FALSE,
     with_ai |-> TRUE] }
  \cup
  { [caller |-> "web", prefixes |-> {}, min_price |-> DefaultMinPrice,
     min_volume |-> DefaultMinVolume, max_positions |-> 1,
     dry_run |-> m[1], max_hours |-> WebMaxHours, has_stop |-> TRUE,
     with_ai |-> m[2]] :
       m \in { << FALSE, TRUE >>, << TRUE, FALSE >> } }

\* open positions in the Store when the invocation starts
InitPositions ==
  { {}, { [ticker |-> "KXNBA-26-MIA", side |-> "no", quantity |-> 1] } }

\* -------------------------------------------------------------------- state
VARIABLES
  args,            \* keyword arguments of the invocation
  scan_binds,      \* whether the scan(...) call of whale.py binds to scan's signature
  stop_requested,  \* _whale_state["stop_requested"], read by stop_check
  pc,              \* position inside run_whale_strategy
  balance_cents,   \* local balance_cents
  daily_loss,      \* local daily_loss
  open_count,      \* local open_count
  results,         \* local results (scan output)
  available,       \* local available, ranked
  idx,             \* 1-based position of the for loop over available
  cur,             \* locals of the current loop iteration
  order_res,       \* result dict of create_order, after the auto-cancel attempt
  summary,         \* local summary
  ret,             \* the dict returned
  exc,             \* the exception that left run_whale_strategy
  exch_orders,     \* orders on the exchange placed by this invocation
  trades,          \* Store: rows of the trades table written
  positions,       \* Store: open positions
  balance_history, \* Store: rows of balance_history written
  live_resp,       \* answer of client.get_market in this iteration: loop
                   \* position, outcome, ask
  candle_resp,     \* answer of client.get_market_candlesticks in this iteration
  ai_resp,         \* answer of analyze_market in this iteration, until the
                   \* submission that follows it
  submits,         \* order submissions made by this invocation (a dry run's
                   \* simulated submission included)
  scan_cache,      \* scanner._scan_cache: whether it is fresh, and its results
  round_num,       \* round of the web control loop
  first,           \* what the previous round left: trade rows written, skipped
  market_cache,    \* scanner._market_cache: ts and markets
  now,             \* time.time(), in seconds
  fetch_ret,       \* the last _fetch_all_markets call: what it saw and returned
  exp_in,          \* arguments of an _within_expiry evaluation
  exp_out,         \* its results for a tight and a wide spread
  scan_in,         \* arguments of a scanner.scan evaluation: the fetched list,
                   \* the filters, and an ask price for _assign_tier
  scan_out,        \* its results
  bg_refresh,      \* scanner._bg_refresh: running, client
  threads,         \* the _bg_refresh_loop threads started so far
  crypto_cache,    \* ai._crypto_cache: ts, data
  dir_in,          \* one evaluation of the directional gate: the candidate,
                   \* the time and what the price request answers
  dir_out,         \* where fetch_crypto_context took its answer from, the
                   \* spot used and where the loop goes next
  cache_lock,      \* scanner._cache_lock: the caller holding it, 0 when free
  callers,         \* threads inside _fetch_all_markets or the refresher's
                   \* age test: position, pages requested, list collected
  whale_state,     \* web._whale_state: running and stop_requested
  requests,        \* control_start requests being handled: position and
                   \* how the last one ended
  runners          \* threads with target _run: position and how they left
                   \* the try block

\* whale_vars without scan_cache
whale_frame == << args, scan_binds, stop_requested, pc, balance_cents, daily_loss,
                  open_count, results, available, idx, cur, order_res, summary, ret, exc,
                  exch_orders, trades, positions, balance_history, live_resp,
                  candle_resp, ai_resp, submits >>
whale_vars == << args, scan_binds, stop_requested, pc, balance_cents, daily_loss,
                 open_count, results, available, idx, cur, order_res, summary, ret, exc,
                 exch_orders, trades, positions, balance_history, live_resp,
                 candle_resp, ai_resp, submits, scan_cache >>
round_vars == << round_num, first >>
cache_vars == << market_cache, now, fetch_ret >>
expiry_vars == << exp_in, exp_out >>
scan_vars == << scan_in, scan_out >>
bg_vars == << bg_refresh, threads >>
dir_vars == << crypto_cache, dir_in, dir_out >>
\* the state of the specifications added last
lock_vars == << cache_lock, callers >>
ctl_vars == << whale_state, requests, runners >>
extra_vars == << dir_vars, lock_vars, ctl_vars >>
\* what run_whale_strategy itself never touches
other_vars == << round_vars, cache_vars, expiry_vars, scan_vars, bg_vars, extra_vars >>
vars == << whale_vars, round_vars, cache_vars, expiry_vars, scan_vars, bg_vars,
           extra_vars >>

NoCur == [ticker |-> "", event_ticker |-> "", side |-> "", bid_price |-> 0,
          ask_price |-> 0, est_price |-> 0, total_contracts |-> 0]
NoResp == [idx |-> 0, outcome |-> "none", ask |-> 0]
\* daily_loss / open_count before they are read
Unread == -1
NoOrder == [order_id |-> 0, status |-> "none", fill_count |-> 0, remaining_count |-> 0,
            taker_fill_cost |-> 0]
NoSummary == [scanned |-> 0, skipped |-> 0, traded |-> 0, orders |-> 0,
              stopped_reason |-> "None", selected_ticker |-> "None"]
NoRet == [pending |-> TRUE]
NoAI == [idx |-> 0, answered |-> FALSE, expected_outcome |-> "", confidence |-> 0,
         should_trade |-> TRUE]
\* _scan_cache before the first scan of the process
ColdScanCache == [valid |-> FALSE, results |-> <<>>]
NoFirst == [trades |-> 0, balances |-> 0, skipped |-> 0, full |-> FALSE]
\* _market_cache as the module defines it (scanner.py 15)
ColdMarketCache == [ts |-> 0, markets |-> <<>>, written |-> <<>>]
NoFetch == [called |-> FALSE, age |-> 0, completed |-> FALSE, raised |-> FALSE,
            failed |-> FALSE, from_cache |-> FALSE, requests |-> 0, stored |-> FALSE,
            cached |-> <<>>, markets |-> <<>>, obtained |-> <<>>, alias |-> FALSE]
NoExpiry == [hours_left |-> 0, tight_spread |-> 0, wide_spread |-> 0]
NoExpiryOut == [done |-> FALSE, tight |-> FALSE, wide |-> FALSE]
NoScanIn == [kind |-> "none", markets |-> <<>>, min_price |-> 0, prefixes |-> {},
             min_volume |-> 0, top_n |-> 0, bid |-> 0, ask |-> 0, rank |-> 0]
NoScanOut == [done |-> FALSE, results |-> <<>>, ranked |-> <<>>, tier |-> 0,
              spread |-> 0]
\* _bg_refresh as the module defines it (scanner.py 19)
NoBgRefresh == [running |-> FALSE, client |-> FALSE]
\* a thread that has not been created
NoThread == [pc |-> "unborn", needs_refresh |-> FALSE, requests |-> 0,
             failed |-> FALSE]

\* the dict of the early returns (lines 122, 129, 151, 195): no selected_ticker
EarlySummary(scanned, skipped, reason) ==
  [scanned |-> scanned, skipped |-> skipped, traded |-> 0, orders |-> 0,
   stopped_reason |-> reason]

\* the state of one invocation at its call
WhaleStart ==
  /\ args \in ArgSets
  /\ scan_binds \in BOOLEAN
  /\ positions \in InitPositions
  /\ stop_requested = FALSE
  /\ pc = "call"
  /\ balance_cents = 0
  /\ daily_loss = Unread
  /\ open_count = Unread
  /\ live_resp = NoResp
  /\ candle_resp = NoResp
  /\ results = <<>>
  /\ available = <<>>
  /\ idx = 0
  /\ cur = NoCur
  /\ order_res = NoOrder
  /\ summary = NoSummary
  /\ ret = NoRet
  /\ exc = "none"
  /\ exch_orders = <<>>
  /\ trades = <<>>
  /\ balance_history = <<>>
  /\ ai_resp = NoAI
  /\ submits = 0

\* ... in a process that has not scanned yet
WhaleInit == WhaleStart /\ scan_cache = ColdScanCache

\* the web control loop, the market cache and the expiry probe at rest
RoundInit == round_num = 1 /\ first = NoFirst
CacheIdle == market_cache = ColdMarketCache /\ now = 0 /\ fetch_ret = NoFetch
ExpiryIdle == exp_in = NoExpiry /\ exp_out = NoExpiryOut
ScanIdle == scan_in = NoScanIn /\ scan_out = NoScanOut
BgIdle == bg_refresh = NoBgRefresh /\ threads = [t \in 1 .. MaxThreads |-> NoThread]
\* the price dict without the bitcoin and ether keys
NoCrypto == [btc_usd |-> NoPrice, eth_usd |-> NoPrice]
\* _crypto_cache as the module defines it (ai.py 19)
ColdCryptoCache == [ts |-> 0, data |-> NoCrypto]
NoDirIn == [ticker |-> "", event_ticker |-> "", side |-> "", now |-> 0,
            failed |-> FALSE, net |-> NoCrypto]
NoDirOut == [done |-> FALSE, how |-> "none", spot |-> NoPrice, next |-> "none"]
DirIdle == crypto_cache = ColdCryptoCache /\ dir_in = NoDirIn /\ dir_out = NoDirOut
NoCaller == [pc |-> "idle", pages |-> 0, fetched |-> <<>>]
LockIdle == cache_lock = 0 /\ callers = [c \in 1 .. MaxCallers |-> NoCaller]
\* _whale_state as the module defines it (web.py 31-36), no request and no
\* thread
NoRequest == [pc |-> "idle", last |-> "none"]
NoRunner == [pc |-> "none", how |-> "none"]
CtlIdle ==
  /\ whale_state = [running |-> FALSE, stop_requested |-> FALSE]
  /\ requests = [h \in 1 .. MaxRequests |-> NoRequest]
  /\ runners = [t \in 1 .. MaxRunners |-> NoRunner]
ExtraIdle == DirIdle /\ LockIdle /\ CtlIdle

Init == WhaleInit /\ RoundInit /\ ExtraIdle /\ CacheIdle /\ ExpiryIdle /\ ScanIdle /\ BgIdle

\* ------------------------------------------------------------------ actions
Raise(e) == pc' = "raised" /\ exc' = e /\ ret' = ret
Return(d) == pc' = "returned" /\ ret' = d /\ exc' = exc

\* get_position_tickers / count_open_positions over the Store
get_position_tickers(pos) == { p.ticker : p \in { q \in pos : q.quantity > 0 } }
count_open_positions(pos) == Cardinality({ q \in pos : q.quantity > 0 })

\* The call itself: the CLI passes tier1_only, which the signature
\* (whale.py 74-89) does not have, so Python raises TypeError at the call.
Call ==
  /\ pc = "call"
  /\ IF args.caller = "cli" THEN Raise("TypeError")
     ELSE pc' = "balance" /\ UNCHANGED << ret, exc >>
  /\ UNCHANGED << other_vars, ai_resp, submits, scan_cache,
                  args, scan_binds, stop_requested, balance_cents, daily_loss,
                  open_count, results, available, idx, cur, order_res, summary,
                  exch_orders, trades, positions, balance_history, live_resp,
                  candle_resp >>

\* Filter 1 (110-115): get_balance, then db.log_balance writes a snapshot
BalanceStep ==
  /\ pc = "balance"
  /\ \/ /\ Raise("ExchangeError")
        /\ UNCHANGED << balance_cents, balance_history >>
     \/ \E b \in Balances :
          /\ balance_cents' = b
          /\ \/ /\ Raise("StoreError")
                /\ UNCHANGED balance_history
             \/ /\ balance_history' = Append(balance_history, b)
                /\ pc' = "daily"
                /\ UNCHANGED << ret, exc >>
  /\ UNCHANGED << other_vars, ai_resp, submits, scan_cache,
                  args, scan_binds, stop_requested, daily_loss, open_count, results,
                  available, idx, cur, order_res, summary, exch_orders, trades,
                  positions, live_resp, candle_resp >>

\* faulty variant: the limit itself is still allowed (> for >=)
DailyLossStrictlyAbove(loss, balance) == loss > MaxDailyLoss(balance)

\* the test of line 120
DailyLossExceeded(loss, balance) == loss >= MaxDailyLoss(balance)

\* Filter 2 (117-123): daily loss limit
DailyLossStep ==
  /\ pc = "daily"
  /\ \/ /\ Raise("StoreError")
        /\ UNCHANGED daily_loss
     \/ \E loss \in Losses :
          /\ daily_loss' = loss
          /\ IF DailyLossExceeded(loss, balance_cents)
             THEN Return(EarlySummary(0, 0, "daily_loss"))
             ELSE pc' = "poscount" /\ UNCHANGED << ret, exc >>
  /\ UNCHANGED << other_vars, ai_resp, submits, scan_cache,
                  args, scan_binds, stop_requested, balance_cents, open_count, results,
                  available, idx, cur, order_res, summary, exch_orders, trades,
                  positions, balance_history, live_resp, candle_resp >>

\* faulty variant: a full book is still allowed (> for >=)
PositionLimitStrictlyAbove(count, max_positions) == count > max_positions

\* the test of line 127
PositionLimitReached(count, max_positions) == count >= max_positions

\* Filter 3 (125-130): position count
PositionCountStep ==
  /\ pc = "poscount"
  /\ \/ /\ Raise("StoreError")
        /\ UNCHANGED open_count
     \/ /\ open_count' = count_open_positions(positions)
        /\ IF PositionLimitReached(open_count', args.max_positions)
           THEN Return(EarlySummary(0, 0, "max_positions"))
           ELSE pc' = "scan" /\ UNCHANGED << ret, exc >>
  /\ UNCHANGED << other_vars, ai_resp, submits, scan_cache,
                  args, scan_binds, stop_requested, balance_cents, daily_loss, results,
                  available, idx, cur, order_res, summary, exch_orders, trades,
                  positions, balance_history, live_resp, candle_resp >>

\* Filter 4 (132-142): the scan call and db.save_scan_results.
\* whale.py passes exclude_categories=...; scanner.scan (263-264) has no such
\* parameter, so with the scanner of this repository the call raises
\* TypeError before scan runs (scan_binds = FALSE). With a scan that takes
\* the keyword: use_cache is True, so a fresh _scan_cache is returned as it
\* is (scanner.py 282-285); otherwise _fetch_all_markets raises StopRequested
\* when it polls stop_check and finds it true, a failed page request raises,
\* and a completed scan stores its results in _scan_cache (467-469).
ScanStep ==
  /\ pc = "scan"
  /\ \/ /\ ~scan_binds
        /\ Raise("TypeError")
        /\ UNCHANGED << results, scan_cache >>
     \/ /\ scan_binds /\ scan_cache.valid
        /\ results' = scan_cache.results
        /\ UNCHANGED scan_cache
        /\ \/ Raise("StoreError")
           \/ pc' = "filter" /\ UNCHANGED << ret, exc >>
     \/ /\ scan_binds /\ ~scan_cache.valid
        /\ args.has_stop /\ stop_requested
        /\ Raise("StopRequested")
        /\ UNCHANGED << results, scan_cache >>
     \/ /\ scan_binds /\ ~scan_cache.valid
        /\ Raise("ExchangeError")
        /\ UNCHANGED << results, scan_cache >>
     \/ /\ scan_binds /\ ~scan_cache.valid
        /\ \E ms \in MarketLists :
             results' = scan(ms, args.min_price, args.prefixes, args.min_volume, ScanTopN)
        /\ scan_cache' = [valid |-> TRUE, results |-> results']
        /\ \/ Raise("StoreError")
           \/ pc' = "filter" /\ UNCHANGED << ret, exc >>
  /\ UNCHANGED << other_vars, ai_resp, submits,
                  args, scan_binds, stop_requested, balance_cents, daily_loss,
                  open_count, available, idx, cur, order_res, summary, exch_orders,
                  trades, positions, balance_history, live_resp, candle_resp >>

\* Filter 9 (179-191): _within_expiry
_within_expiry(c, max_hours) ==
  IF c.hours_left = HrsNone \/ c.hours_left <= 0 THEN FALSE
  ELSE LET limit == IF c.spread_pct <= TightSpreadPct THEN TightSpreadHours ELSE max_hours
       IN c.hours_left <= limit

\* faulty variant: the sort key with the tier negated (tier 3 first)
RankLessTierDescending(a, b) ==
  LET ha == IF a.hours_left # HrsNone THEN a.hours_left ELSE HoursNoneRank
      hb == IF b.hours_left # HrsNone THEN b.hours_left ELSE HoursNoneRank
  IN \/ a.tier > b.tier
     \/ a.tier = b.tier /\ ha < hb
     \/ a.tier = b.tier /\ ha = hb /\ a.signal_price > b.signal_price
     \/ a.tier = b.tier /\ ha = hb /\ a.signal_price = b.signal_price
        /\ a.dollar_24h > b.dollar_24h

\* key of available.sort (198-203)
RankLess(a, b) ==
  LET ha == IF a.hours_left # HrsNone THEN a.hours_left ELSE HoursNoneRank
      hb == IF b.hours_left # HrsNone THEN b.hours_left ELSE HoursNoneRank
  IN \/ a.tier < b.tier
     \/ a.tier = b.tier /\ ha < hb
     \/ a.tier = b.tier /\ ha = hb /\ a.signal_price > b.signal_price
     \/ a.tier = b.tier /\ ha = hb /\ a.signal_price = b.signal_price
        /\ a.dollar_24h > b.dollar_24h

IsQualified(r) == r.qualified

\* Filters 5-9 and the ranking (144-203); exclude_categories is None for
\* every caller, so filter 6 is skipped
Candidates(res) == SelectSeq(res, IsQualified)
Available(cands, existing, max_hours) ==
  LET not_held(c) == c.ticker \notin existing
      below_ceiling(c) == c.signal_ask <= PriceCeiling
      in_window(c) == _within_expiry(c, max_hours)
  IN SelectSeq(SelectSeq(SelectSeq(cands, not_held), below_ceiling), in_window)
Held(cands, existing) ==
  LET not_held(c) == c.ticker \notin existing
  IN Len(cands) - Len(SelectSeq(cands, not_held))
Rank(avail) == StableSort(avail, RankLess)

FilterStep ==
  /\ pc = "filter"
  /\ LET candidates == Candidates(results)
         total_found == Len(results)
     IN IF candidates = <<>>
        THEN /\ Return(EarlySummary(total_found, 0, "None"))
             /\ UNCHANGED << available, idx, summary >>
        ELSE
          \/ /\ Raise("StoreError")
             /\ UNCHANGED << available, idx, summary >>
          \/ LET existing == get_position_tickers(positions)
                 avail == Available(candidates, existing, args.max_hours)
                 held == Held(candidates, existing)
             IN IF avail = <<>>
                THEN /\ Return(EarlySummary(total_found, held, "None"))
                     /\ UNCHANGED << available, idx, summary >>
                ELSE /\ available' = Rank(avail)
                     /\ summary' = [scanned |-> total_found, skipped |-> held,
                                    traded |-> 0, orders |-> 0,
                                    stopped_reason |-> "None",
                                    selected_ticker |-> "None"]
                     /\ idx' = 1
                     /\ pc' = "loop"
                     /\ UNCHANGED << ret, exc >>
  /\ UNCHANGED << other_vars, ai_resp, submits, scan_cache,
                  args, scan_binds, stop_requested, balance_cents, daily_loss,
                  open_count, results, cur, order_res, exch_orders, trades, positions,
                  balance_history, live_resp, candle_resp >>

\* "continue": the for loop takes the next element of available
Continue == idx' = idx + 1 /\ pc' = "loop" /\ cur' = NoCur

\* faulty variant: the loop never consults stop_check
StopIgnored(has_stop, requested) == FALSE

\* "if stop_check and stop_check()" (217)
StopObserved(has_stop, requested) == has_stop /\ requested

\* Top of the loop body (216-238): loop end, stop_check, the locals of the
\* iteration and the sizing gate
LoopTop ==
  /\ pc = "loop"
  /\ IF idx > Len(available)
     THEN pc' = "finish" /\ UNCHANGED << idx, cur, summary >>
     ELSE IF StopObserved(args.has_stop, stop_requested)
     THEN /\ summary' = [summary EXCEPT !.stopped_reason = "stopped"]
          /\ pc' = "finish"
          /\ UNCHANGED << idx, cur >>
     ELSE
       LET selected == available[idx]
           bid_price == selected.signal_price
           ask_price == selected.signal_ask
           est_price == IF ask_price > 0 THEN ask_price ELSE bid_price
           total_contracts == calculate_position(balance_cents, est_price)
       IN /\ summary' = [summary EXCEPT !.selected_ticker = selected.ticker]
          /\ IF total_contracts <= 0 THEN Continue
             ELSE /\ cur' = [ticker |-> selected.ticker,
                             event_ticker |-> selected.event_ticker,
                             side |-> selected.signal_side,
                             bid_price |-> bid_price, ask_price |-> ask_price,
                             est_price |-> est_price,
                             total_contracts |-> total_contracts]
                  /\ pc' = "live"
                  /\ UNCHANGED idx
  /\ live_resp' = NoResp
  /\ candle_resp' = NoResp
  /\ ai_resp' = NoAI
  /\ UNCHANGED << other_vars, submits, scan_cache,
                  args, scan_binds, stop_requested, balance_cents, daily_loss,
                  open_count, results, available, order_res, ret, exc, exch_orders,
                  trades, positions, balance_history >>

\* faulty variant: the range test without its upper bound
LiveBelowMinOnly(live_ask, min_price) == live_ask < min_price

\* faulty variant: only the ceiling is tested
LiveAboveCeilingOnly(live_ask, min_price) == live_ask > PriceCeiling

\* the range test of line 245
LiveOutOfRange(live_ask, min_price) == live_ask < min_price \/ live_ask > PriceCeiling

\* Live price re-check (240-257); when get_market raises, the except clause
\* logs and the scan values stay in use
LiveStep ==
  /\ pc = "live"
  /\ \/ /\ live_resp' = [idx |-> idx, outcome |-> "error", ask |-> 0]
        /\ pc' = "velocity"
        /\ UNCHANGED << idx, cur >>
     \/ \E live_ask \in LiveAsks :
          LET live_bid == IF live_ask > 0 THEN live_ask - 1 ELSE 0
              total_contracts == calculate_position(balance_cents, live_ask)
          IN /\ live_resp' = [idx |-> idx, outcome |-> "ok", ask |-> live_ask]
             /\ IF LiveOutOfRange(live_ask, args.min_price) THEN Continue
                ELSE IF total_contracts <= 0 THEN Continue
                ELSE /\ cur' = [cur EXCEPT !.ask_price = live_ask,
                                           !.bid_price = live_bid,
                                           !.est_price = live_ask,
                                           !.total_contracts = total_contracts]
                     /\ pc' = "velocity"
                     /\ UNCHANGED idx
  /\ UNCHANGED << other_vars, ai_resp, submits, scan_cache,
                  args, scan_binds, stop_requested, balance_cents, daily_loss,
                  open_count, results, available, order_res, summary, ret, exc,
                  exch_orders, trades, positions, balance_history, candle_resp >>

\* Price velocity gate (259-263)
VelocityStep ==
  /\ pc = "velocity"
  /\ \E fetch_ok \in BOOLEAN, candles \in CandleLists :
       /\ candle_resp' = [idx |-> idx, outcome |-> IF fetch_ok THEN "ok" ELSE "error",
                          ask |-> 0]
       /\ IF _check_price_velocity(fetch_ok, candles, cur.ask_price) THEN Continue
          ELSE pc' = "directional" /\ UNCHANGED << idx, cur >>
  /\ UNCHANGED << other_vars, ai_resp, submits, scan_cache,
                  args, scan_binds, stop_requested, balance_cents, daily_loss,
                  open_count, results, available, order_res, summary, ret, exc,
                  exch_orders, trades, positions, balance_history, live_resp >>

\* the two rejections of the directional gate (280-285), buffer 0.5%
Contrarian(side, spot, strike) ==
  \/ side = "no" /\ spot * 1000 > strike * 1005
  \/ side = "yes" /\ spot * 1000 < strike * 995

\* Crypto directional gate (267-292)
DirectionalStep ==
  /\ pc = "directional"
  /\ LET event_prefix == cur.event_ticker
         strike == extract_strike_price(cur.ticker)
         asset_key == IF Contains(event_prefix, "BTC") THEN "btc_usd" ELSE "eth_usd"
     IN IF (StartsWith(event_prefix, "KXBTC") \/ StartsWith(event_prefix, "KXETH"))
           /\ strike # NotNum
        THEN \E spot \in Spots(asset_key) :
               IF spot # NoPrice /\ Contrarian(cur.side, spot, strike) THEN Continue
               ELSE pc' = "ai" /\ UNCHANGED << idx, cur >>
        ELSE pc' = "ai" /\ UNCHANGED << idx, cur >>
  /\ UNCHANGED << other_vars, ai_resp, submits, scan_cache,
                  args, scan_binds, stop_requested, balance_cents, daily_loss,
                  open_count, results, available, order_res, summary, ret, exc,
                  exch_orders, trades, positions, balance_history, live_resp,
                  candle_resp >>

\* the three rejections of the AI gate (303-313)
AIRejects(ai_result, side, min_confidence) ==
  LET ai_side == Upper(ai_result.expected_outcome)
      our_side == Upper(side)
  IN \/ ai_side \notin { "UNKNOWN", "" } /\ ai_side # our_side
     \/ ai_result.confidence > 0 /\ ai_result.confidence < min_confidence
     \/ ~ai_result.should_trade

\* AI analysis gate (294-320)
AIStep ==
  /\ pc = "ai"
  /\ IF args.with_ai
     THEN \E ai_result \in AIResults :
            /\ ai_resp' = [idx |-> idx, answered |-> ai_result.answered,
                           expected_outcome |-> ai_result.expected_outcome,
                           confidence |-> ai_result.confidence,
                           should_trade |-> ai_result.should_trade]
            /\ IF AIRejects(ai_result, cur.side, MinConfidence) THEN Continue
               ELSE pc' = "submit" /\ UNCHANGED << idx, cur >>
     ELSE pc' = "submit" /\ UNCHANGED << idx, cur, ai_resp >>
  /\ UNCHANGED << other_vars, submits, scan_cache,
                  args, scan_binds, stop_requested, balance_cents, daily_loss,
                  open_count, results, available, order_res, summary, ret, exc,
                  exch_orders, trades, positions, balance_history, live_resp,
                  candle_resp >>

\* public methods of KalshiBotClient (client.py 39-175)
ClientMethods ==
  { "get_balance", "get_markets", "get_market", "get_all_markets", "get_positions",
    "get_market_candlesticks", "batch_get_market_candlesticks", "create_order" }

\* fill counts the exchange may report for an order of count contracts
Fills(count) == { 0, count } \cup (IF count >= 2 THEN { 1 } ELSE {})

\* the exchange takes an order: what is filled is executed, the rest rests
PlaceOnExchange(orders, ticker, side, count, price, fill) ==
  Append(orders, [order_id |-> Len(orders) + 1, ticker |-> ticker, side |-> side,
                  count |-> count, price |-> price, fill_count |-> fill,
                  remaining_count |-> count - fill,
                  status |-> IF fill = count THEN "executed" ELSE "resting"])

CancelOnExchange(orders, order_id) ==
  [k \in DOMAIN orders |->
     IF orders[k].order_id = order_id
     THEN [orders[k] EXCEPT !.status = "canceled", !.remaining_count = 0]
     ELSE orders[k]]

\* Auto-cancel of a resting order (346-352): client.cancel_order(order_id)
\* inside try/except Exception: pass. The attribute lookup raises
\* AttributeError when the client has no such method; api_status is only
\* rewritten after a call that returned.
AutoCancelCalls(api_status, remaining, order_id) ==
  api_status = "resting" /\ remaining > 0 /\ order_id # 0
AutoCancelSucceeds == "cancel_order" \in ClientMethods

\* limit_price (322)
LimitPrice(ask_price) == IF ask_price > 0 THEN ask_price ELSE PriceCeiling

\* a dry run that counts the trade but not the order
DryRunSummaryNoOrder(s) == [s EXCEPT !.traded = 1]
\* the dry run's summary (329-330)
DryRunSummary(s) == [s EXCEPT !.traded = 1, !.orders = @ + 1]

\* Order submission (322-352): limit price, dry run, create_order and the
\* auto-cancel attempt
SubmitStep ==
  /\ pc = "submit"
  /\ submits' = submits + 1
  /\ ai_resp' = NoAI
  /\ LET limit_price == LimitPrice(cur.ask_price)
     IN IF args.dry_run
        THEN /\ summary' = DryRunSummary(summary)
             /\ pc' = "finish"
             /\ UNCHANGED << order_res, exch_orders >>
        ELSE
          \/ /\ pc' = "failed"
             /\ UNCHANGED << order_res, exch_orders, summary >>
          \/ \E fill \in Fills(cur.total_contracts) :
               LET placed == PlaceOnExchange(exch_orders, cur.ticker, cur.side,
                                             cur.total_contracts, limit_price, fill)
                   o == placed[Len(placed)]
                   cancels == AutoCancelCalls(o.status, o.remaining_count, o.order_id)
                              /\ AutoCancelSucceeds
               IN /\ exch_orders' = IF cancels THEN CancelOnExchange(placed, o.order_id)
                                    ELSE placed
                  /\ order_res' = [order_id |-> o.order_id,
                                   status |-> IF cancels THEN "canceled" ELSE o.status,
                                   fill_count |-> o.fill_count,
                                   remaining_count |-> o.remaining_count,
                                   taker_fill_cost |-> o.fill_count * limit_price]
                  /\ pc' = "record"
                  /\ UNCHANGED summary
  /\ UNCHANGED << other_vars, scan_cache,
                  args, scan_binds, stop_requested, balance_cents, daily_loss,
                  open_count, results, available, idx, cur, ret, exc, trades,
                  positions, balance_history, live_resp, candle_resp >>

\* db.update_position_on_buy: add to the open position of ticker and side,
\* or insert one
update_position_on_buy(pos, ticker, side, qty) ==
  IF \E p \in pos : p.ticker = ticker /\ p.side = side
  THEN { IF p.ticker = ticker /\ p.side = side
         THEN [p EXCEPT !.quantity = @ + qty] ELSE p : p \in pos }
  ELSE pos \cup { [ticker |-> ticker, side |-> side, quantity |-> qty] }

\* Rest of the try block (354-378): db.log_trade, the orders counter,
\* db.update_position_on_buy; an exception of either Store call is caught
\* by the except clause of line 380
RecordStep ==
  /\ pc = "record"
  /\ LET fill_count == order_res.fill_count
         actual_entry == IF fill_count > 0 /\ order_res.taker_fill_cost > 0
                         THEN order_res.taker_fill_cost \div fill_count
                         ELSE cur.est_price
         row == [ticker |-> cur.ticker, side |-> cur.side,
                 count |-> cur.total_contracts, price_cents |-> actual_entry,
                 status |-> order_res.status, order_id |-> order_res.order_id,
                 fill_count |-> fill_count,
                 remaining_count |-> order_res.remaining_count]
     IN \/ /\ pc' = "failed"
           /\ UNCHANGED << trades, summary, positions, idx, cur >>
        \/ /\ trades' = Append(trades, row)
           /\ IF fill_count > 0
              THEN \/ /\ summary' = [summary EXCEPT !.orders = @ + 1]
                      /\ pc' = "failed"
                      /\ UNCHANGED << positions, idx, cur >>
                   \/ /\ positions' = update_position_on_buy(positions, cur.ticker,
                                                             cur.side, fill_count)
                      /\ summary' = [summary EXCEPT !.orders = @ + 1, !.traded = 1]
                      /\ pc' = "finish"
                      /\ UNCHANGED << idx, cur >>
              ELSE /\ summary' = [summary EXCEPT !.orders = @ + 1]
                   /\ Continue
                   /\ UNCHANGED positions
  /\ UNCHANGED << other_vars, ai_resp, submits, scan_cache,
                  args, scan_binds, stop_requested, balance_cents, daily_loss,
                  open_count, results, available, order_res, ret, exc, exch_orders,
                  balance_history, live_resp, candle_resp >>

\* The except clause (380-388): db.log_trade with status "failed", the
\* orders counter, continue. An exception of this db.log_trade has no
\* handler and leaves run_whale_strategy.
FailedStep ==
  /\ pc = "failed"
  /\ \/ /\ Raise("StoreError")
        /\ UNCHANGED << trades, summary, idx, cur >>
     \/ /\ trades' = Append(trades,
                       [ticker |-> cur.ticker, side |-> cur.side,
                        count |-> cur.total_contracts, price_cents |-> cur.est_price,
                        status |-> "failed", order_id |-> 0,
                        fill_count |-> 0, remaining_count |-> 0])
        /\ summary' = [summary EXCEPT !.orders = @ + 1]
        /\ Continue
        /\ UNCHANGED << ret, exc >>
  /\ UNCHANGED << other_vars, ai_resp, submits, scan_cache,
                  args, scan_binds, stop_requested, balance_cents, daily_loss,
                  open_count, results, available, order_res, exch_orders, positions,
                  balance_history, live_resp, candle_resp >>

\* After the loop (390-393): return summary
Finish ==
  /\ pc = "finish"
  /\ Return(summary)
  /\ UNCHANGED << other_vars, ai_resp, submits, scan_cache,
                  args, scan_binds, stop_requested, balance_cents, daily_loss,
                  open_count, results, available, idx, cur, order_res, summary,
                  exch_orders, trades, positions, balance_history, live_resp,
                  candle_resp >>

\* control_stop (web.py 971-977) sets the flag stop_check reads
RequestStop ==
  /\ args.caller = "web"
  /\ ~stop_requested
  /\ pc \notin { "returned", "raised" }
  /\ stop_requested' = TRUE
  /\ UNCHANGED << other_vars, ai_resp, submits, scan_cache,
                  args, scan_binds, pc, balance_cents, daily_loss, open_count, results,
                  available, idx, cur, order_res, summary, ret, exc, exch_orders,
                  trades, positions, balance_history, live_resp, candle_resp >>

Next ==
  \/ Call
  \/ BalanceStep
  \/ DailyLossStep
  \/ PositionCountStep
  \/ ScanStep
  \/ FilterStep
  \/ LoopTop
  \/ LiveStep
  \/ VelocityStep
  \/ DirectionalStep
  \/ AIStep
  \/ SubmitStep
  \/ RecordStep
  \/ FailedStep
  \/ Finish
  \/ RequestStop

Spec == Init /\ [][Next]_vars

\* ------------------------------------------------- the expiry window alone
\* _within_expiry (whale.py 182-187) evaluated for two candidates with the same
\* hours_left, one with spread_pct <= 2.5 and one with a wider spread, under
\* the max_hours_to_expiration of each caller.
ExpiryHours == { HrsNone } \cup (0 .. MaxHoursLeft)
TightSpreads == { 0, 100, TightSpreadPct }
WideSpreads == { TightSpreadPct + 1, 400, QUALIFIED_MAX_SPREAD_PCT }

InitExpiry ==
  /\ WhaleInit /\ RoundInit /\ ExtraIdle /\ CacheIdle /\ ScanIdle /\ BgIdle
  /\ exp_in \in [hours_left : ExpiryHours, tight_spread : TightSpreads,
                 wide_spread : WideSpreads]
  /\ exp_out = NoExpiryOut

WithinExpiryStep ==
  /\ ~exp_out.done
  /\ exp_out' =
       [done |-> TRUE,
        tight |-> _within_expiry([hours_left |-> exp_in.hours_left,
                                  spread_pct |-> exp_in.tight_spread], args.max_hours),
        wide |-> _within_expiry([hours_left |-> exp_in.hours_left,
                                 spread_pct |-> exp_in.wide_spread], args.max_hours)]
  /\ UNCHANGED << extra_vars, whale_vars, round_vars, cache_vars, scan_vars, bg_vars, exp_in >>

NextExpiry == WithinExpiryStep

SpecExpiry == InitExpiry /\ [][NextExpiry]_vars

\* ------------------------------------------------------- the market cache
\* _fetch_all_markets (scanner.py 43-110) against _market_cache, one call at
\* a time. A call first tests the cache (54-57): the cached list must be
\* non-empty (an empty list is false in Python) and younger than the TTL; a
\* hit returns the list object held by the slot. Otherwise pages are
\* requested through _fetch_page (23-40): a request that raises ends the
\* call and leaves the cache as it was; a response without data is turned
\* into an empty page with no cursor (35-36); further pages are read while
\* there is a cursor and the page is not empty (76-87). A call that comes
\* to its end stores the list and the time (106-108) and returns that same
\* list object with from_cache False.
ErrorPage == [kind |-> "error", markets |-> <<>>, cursor |-> FALSE]
NoBodyPage == [kind |-> "no_body", markets |-> <<>>, cursor |-> FALSE]
OkPage(ms, cursor) == [kind |-> "ok", markets |-> ms, cursor |-> cursor]
\* answers to the first page request, and to the one that follows a cursor
FirstPages == { ErrorPage, NoBodyPage, OkPage(<<>>, FALSE), OkPage(<< MktA >>, FALSE),
                OkPage(<< MktD, MktA >>, FALSE), OkPage(<< MktA >>, TRUE) }
NextPages == { ErrorPage, NoBodyPage, OkPage(<< MktB >>, FALSE) }

\* _fetch_page: (markets, next_cursor) of a response that did not raise
_fetch_page(resp) ==
  IF resp.kind = "no_body" THEN [markets |-> <<>>, cursor |-> FALSE]
  ELSE [markets |-> resp.markets, cursor |-> resp.cursor]

\* lines 59-104 for the answers r1 (first page) and r2 (second page, when
\* it is requested): failed tells that a request raised or brought no data
FetchPages(r1, r2) ==
  IF r1.kind = "error"
  THEN [raised |-> TRUE, failed |-> TRUE, requests |-> 1, markets |-> <<>>]
  ELSE LET p1 == _fetch_page(r1)
       IN IF p1.cursor /\ p1.markets # <<>>
          THEN IF r2.kind = "error"
               THEN [raised |-> TRUE, failed |-> TRUE, requests |-> 2, markets |-> <<>>]
               ELSE [raised |-> FALSE,
                     failed |-> r1.kind = "no_body" \/ r2.kind = "no_body",
                     requests |-> 2,
                     markets |-> p1.markets \o _fetch_page(r2).markets]
          ELSE [raised |-> FALSE, failed |-> r1.kind = "no_body", requests |-> 1,
                markets |-> p1.markets]

CacheFresh(cache, t) ==
  cache.markets # <<>> /\ t - cache.ts < MARKET_CACHE_TTL

\* the cache write of 106-108; written keeps the list as it was stored
StoreInCache(ms, t) == [ts |-> t, markets |-> ms, written |-> ms]

InitCache ==
  /\ WhaleInit /\ RoundInit /\ ExtraIdle /\ ExpiryIdle /\ ScanIdle /\ BgIdle
  /\ market_cache = ColdMarketCache
  /\ now = ClockStart
  /\ fetch_ret = NoFetch

\* a caller that keeps the list it got (fetch_ret): obtained is a copy of
\* the list at the return, alias tells that the caller's list is the
\* object held by the cache slot
FetchAllMarkets ==
  LET age == now - market_cache.ts
      seen == [NoFetch EXCEPT !.called = TRUE, !.age = age,
                              !.completed = market_cache.ts # 0,
                              !.cached = market_cache.markets]
  IN /\ IF CacheFresh(market_cache, now)
        THEN /\ fetch_ret' = [seen EXCEPT !.from_cache = TRUE,
                                          !.markets = market_cache.markets,
                                          !.obtained = market_cache.markets,
                                          !.alias = TRUE]
             /\ UNCHANGED market_cache
        ELSE \E r1 \in FirstPages, r2 \in NextPages :
               LET f == FetchPages(r1, r2)
               IN IF f.raised
                  THEN /\ fetch_ret' = [seen EXCEPT !.raised = TRUE, !.failed = TRUE,
                                                    !.requests = f.requests]
                       /\ UNCHANGED market_cache
                  ELSE /\ market_cache' = StoreInCache(f.markets, now)
                       /\ fetch_ret' = [seen EXCEPT !.failed = f.failed,
                                                    !.requests = f.requests,
                                                    !.stored = TRUE,
                                                    !.markets = f.markets,
                                                    !.obtained = f.markets,
                                                    !.alias = TRUE]
     /\ UNCHANGED << extra_vars, whale_vars, round_vars, expiry_vars, scan_vars, bg_vars, now >>

\* scan(client) with its defaults (263-264, use_cache False), as another
\* caller: it starts the refresher when none is flagged running (288),
\* fetches (293-295), sorts the list it got in place (299), and stores its
\* results in _scan_cache (467-469). The list it sorts is the object held by
\* the cache slot, on a hit and on a miss.
ScanCall ==
  /\ IF bg_refresh.running \/ \A t \in 1 .. MaxThreads : threads[t].pc # "unborn"
     THEN UNCHANGED << bg_refresh, threads >>
     ELSE /\ bg_refresh' = [running |-> TRUE, client |-> TRUE]
          /\ LET t == CHOOSE u \in 1 .. MaxThreads :
                        /\ threads[u].pc = "unborn"
                        /\ \A v \in 1 .. MaxThreads : threads[v].pc = "unborn" => u <= v
             IN threads' = [threads EXCEPT ![t].pc = "top"]
  /\ IF CacheFresh(market_cache, now)
     THEN LET sorted == StableSort(market_cache.markets, VolumeDesc)
          IN /\ market_cache' = [market_cache EXCEPT !.markets = sorted]
             /\ fetch_ret' = IF fetch_ret.alias
                             THEN [fetch_ret EXCEPT !.markets = sorted]
                             ELSE fetch_ret
             /\ scan_cache' = [valid |-> TRUE,
                               results |-> scan(sorted, DefaultMinPrice, {},
                                                DefaultMinVolume, ScanDefaultTopN)]
     ELSE \E r1 \in FirstPages, r2 \in NextPages :
            LET f == FetchPages(r1, r2)
                sorted == StableSort(f.markets, VolumeDesc)
            IN IF f.raised
               THEN UNCHANGED << market_cache, fetch_ret, scan_cache >>
               ELSE /\ market_cache' = [StoreInCache(f.markets, now)
                                          EXCEPT !.markets = sorted]
                    /\ fetch_ret' = [fetch_ret EXCEPT !.alias = FALSE]
                    /\ scan_cache' = [valid |-> TRUE,
                                      results |-> scan(sorted, DefaultMinPrice, {},
                                                       DefaultMinVolume, ScanDefaultTopN)]
  /\ UNCHANGED << extra_vars, whale_frame, round_vars, expiry_vars, scan_vars, now >>

\* time passes
Tick ==
  /\ now + ClockStep <= ClockEnd
  /\ now' = now + ClockStep
  /\ UNCHANGED << extra_vars, whale_vars, round_vars, expiry_vars, scan_vars, bg_vars,
                  market_cache, fetch_ret >>

NextCache == FetchAllMarkets \/ ScanCall \/ Tick

SpecCache == InitCache /\ [][NextCache]_vars

\* ------------------------------------------------- the background refresher
\* start_background_refresh / stop_background_refresh (scanner.py 142-157) and
\* the _bg_refresh_loop threads (113-139), one step per access to the shared
\* state: the running flag (115-118), the cache age (122-124), the cache
\* test of _fetch_all_markets (54-57), the page requests and the cache write
\* (63-108), and the sleep loop (134-139).
Threads == 1 .. MaxThreads

\* needs_refresh (124): age >= ttl * 0.8
NeedsRefresh(age) == 10 * age >= 8 * MARKET_CACHE_TTL

\* what "except Exception" (129) catches: every exception the fetch raises
\* is an Exception subclass
FetchExceptions == { "ExchangeError" }

\* faulty variant: the handler catches nothing
RefreshCatchesNothing(e) == FALSE

RefreshCatches(e) == e \in FetchExceptions \cup { "StopRequested", "TypeError" }

\* faulty variant: the loop never sees the flag cleared
RunningNeverCleared(flag) == TRUE

\* "if not _bg_refresh['running']" (116, 137)
RunningSeen(flag) == flag

\* what a refresher's fetch can bring back
BgLists == { <<>>, << MktA >> }

Alive(t) == threads[t].pc \notin { "unborn", "done" }

InitBg ==
  /\ WhaleInit /\ args.caller = "direct" /\ ~scan_binds /\ positions = {}
  /\ RoundInit /\ ExtraIdle /\ ExpiryIdle /\ ScanIdle
  /\ market_cache = ColdMarketCache
  /\ now = ClockStart
  /\ fetch_ret = NoFetch
  /\ BgIdle

\* start_background_refresh: nothing while running is set; otherwise a new
\* thread is created and started
StartBackgroundRefresh ==
  /\ IF bg_refresh.running
     THEN UNCHANGED bg_vars
     ELSE /\ \E t \in Threads : threads[t].pc = "unborn"
          /\ LET t == CHOOSE u \in Threads :
                        /\ threads[u].pc = "unborn"
                        /\ \A v \in Threads : threads[v].pc = "unborn" => u <= v
             IN threads' = [threads EXCEPT ![t].pc = "top"]
          /\ bg_refresh' = [running |-> TRUE, client |-> TRUE]
  /\ UNCHANGED << extra_vars, whale_vars, round_vars, cache_vars, expiry_vars, scan_vars >>

\* stop_background_refresh
StopBackgroundRefresh ==
  /\ bg_refresh' = [bg_refresh EXCEPT !.running = FALSE]
  /\ UNCHANGED << extra_vars, whale_vars, round_vars, cache_vars, expiry_vars, scan_vars, threads >>

\* top of the loop (115-120)
BgTop(t) ==
  /\ threads[t].pc = "top"
  /\ threads' = [threads EXCEPT ![t].pc =
                   IF ~RunningSeen(bg_refresh.running) \/ ~bg_refresh.client
                   THEN "done" ELSE "age"]
  /\ UNCHANGED << extra_vars, whale_vars, round_vars, cache_vars, expiry_vars, scan_vars, bg_refresh >>

\* the age test (122-126)
BgAge(t) ==
  /\ threads[t].pc = "age"
  /\ LET needs_refresh == NeedsRefresh(now - market_cache.ts)
     IN threads' = [threads EXCEPT ![t].pc = IF needs_refresh THEN "fetch" ELSE "sleep",
                                   ![t].needs_refresh = needs_refresh]
  /\ UNCHANGED << extra_vars, whale_vars, round_vars, cache_vars, expiry_vars, scan_vars, bg_refresh >>

\* the call of _fetch_all_markets (128): its own cache test comes first
BgFetch(t) ==
  /\ threads[t].pc = "fetch"
  /\ threads' = IF CacheFresh(market_cache, now)
                THEN [threads EXCEPT ![t].pc = "sleep"]
                ELSE [threads EXCEPT ![t].pc = "net", ![t].requests = 1]
  /\ UNCHANGED << extra_vars, whale_vars, round_vars, cache_vars, expiry_vars, scan_vars, bg_refresh >>

\* the page requests return: an exception (caught at 129), or the list,
\* stored with the time of the write
BgNet(t) ==
  /\ threads[t].pc = "net"
  /\ \/ \E e \in FetchExceptions :
          /\ threads' = [threads EXCEPT ![t].pc = IF RefreshCatches(e) THEN "sleep"
                                                 ELSE "done",
                                        ![t].failed = TRUE]
          /\ UNCHANGED market_cache
     \/ \E ms \in BgLists :
          /\ market_cache' = StoreInCache(ms, now)
          /\ threads' = [threads EXCEPT ![t].pc = "sleep"]
  /\ UNCHANGED << extra_vars, whale_vars, round_vars, expiry_vars, scan_vars, bg_refresh, now,
                  fetch_ret >>

\* the sleep loop (134-139): return when the flag is clear, else back to the
\* top after the last second
BgSleep(t) ==
  /\ threads[t].pc = "sleep"
  /\ threads' = [threads EXCEPT ![t] =
                   [NoThread EXCEPT !.pc =
                      IF ~RunningSeen(bg_refresh.running) THEN "done" ELSE "top"]]
  /\ UNCHANGED << extra_vars, whale_vars, round_vars, cache_vars, expiry_vars, scan_vars, bg_refresh >>

BgStep(t) == BgTop(t) \/ BgAge(t) \/ BgFetch(t) \/ BgNet(t) \/ BgSleep(t)

NextBg ==
  \/ StartBackgroundRefresh
  \/ StopBackgroundRefresh
  \/ Tick
  \/ \E t \in Threads : BgTop(t)
  \/ \E t \in Threads : BgAge(t)
  \/ \E t \in Threads : BgFetch(t)
  \/ \E t \in Threads : BgNet(t)
  \/ \E t \in Threads : BgSleep(t)

SpecBg == InitBg /\ [][NextBg]_vars

\* every thread that can take a step eventually takes one: the scheduler
\* runs each started thread, a pending request returns, a sleep ends
FairSpecBg == SpecBg /\ \A t \in Threads : WF_vars(BgStep(t))

\* ------------------------------------------------------- scan on its own
\* scan, _assign_tier and the qualification of one candidate as functions of
\* their inputs. A state holds one input (scan_in) and, once the function
\* has been applied, its output (scan_out): results is what scan returns,
\* ranked the same candidates in the order the candidate loop appended them.
QuoteLists == DistinctSeqs(ScanQuotes, MaxQuotes)
ScanMinPrices == { DefaultMinPrice, 97 }
ScanPrefixSets == { {}, DefaultPrefixes }
ScanTopNs == { 1, ScanDefaultTopN }
TierAsks == 0 .. 100
\* ranks of a candidate in short and in long candidate lists
ProbeRanks == { 1, QUALIFIED_TOP_N_DOLLAR, QUALIFIED_TOP_N_DOLLAR + 1 }

ScanInputs ==
  { [kind |-> "scan", markets |-> ms, min_price |-> mp, prefixes |-> ps,
     min_volume |-> DefaultMinVolume, top_n |-> n, bid |-> 0, ask |-> 0,
     rank |-> 0] :
    ms \in QuoteLists, mp \in ScanMinPrices, ps \in ScanPrefixSets, n \in ScanTopNs }
TierInputs ==
  { [NoScanIn EXCEPT !.kind = "tier", !.ask = a] : a \in TierAsks }
QualifyInputs ==
  { [kind |-> "qualify", markets |-> << m >>, min_price |-> DefaultMinPrice,
     prefixes |-> {}, min_volume |-> DefaultMinVolume, top_n |-> ScanDefaultTopN,
     bid |-> 0, ask |-> 0, rank |-> k] : m \in ScanQuotes, k \in ProbeRanks }
\* bid and ask in integer cents
SpreadInputs ==
  { [NoScanIn EXCEPT !.kind = "spread", !.bid = b, !.ask = a] :
    b \in TierAsks, a \in TierAsks }

InitScan ==
  /\ WhaleInit /\ args.caller = "direct" /\ ~scan_binds /\ positions = {}
  /\ RoundInit /\ ExtraIdle /\ CacheIdle /\ ExpiryIdle /\ BgIdle
  /\ scan_in \in ScanInputs \cup TierInputs \cup QualifyInputs \cup SpreadInputs
  /\ scan_out = NoScanOut

\* one scan of the quote list
ScanRun ==
  /\ scan_in.kind = "scan" /\ ~scan_out.done
  /\ scan_out' = [done |-> TRUE,
                  results |-> scan(scan_in.markets, scan_in.min_price, scan_in.prefixes,
                                   scan_in.min_volume, scan_in.top_n),
                  ranked |-> ScanRanked(scan_in.markets, scan_in.min_price,
                                        scan_in.prefixes, scan_in.min_volume,
                                        scan_in.top_n),
                  tier |-> 0, spread |-> 0]
  /\ UNCHANGED << extra_vars, whale_vars, round_vars, cache_vars, expiry_vars, bg_vars, scan_in >>

\* _assign_tier(ask)
TierRun ==
  /\ scan_in.kind = "tier" /\ ~scan_out.done
  /\ scan_out' = [NoScanOut EXCEPT !.done = TRUE, !.tier = _assign_tier(scan_in.ask)]
  /\ UNCHANGED << extra_vars, whale_vars, round_vars, cache_vars, expiry_vars, bg_vars, scan_in >>

\* the body of the qualification loop (397-436) for the candidate that the
\* quote gives, standing at rank scan_in.rank of its candidate list
QualifyRun ==
  /\ scan_in.kind = "qualify" /\ ~scan_out.done
  /\ LET appended == ScanLoop(scan_in.markets, scan_in.min_price, scan_in.prefixes,
                              scan_in.min_volume)
         ranked == [i \in DOMAIN appended |-> Qualify(appended[i], scan_in.rank)]
     IN scan_out' = [done |-> TRUE, results |-> ranked, ranked |-> ranked, tier |-> 0,
                     spread |-> 0]
  /\ UNCHANGED << extra_vars, whale_vars, round_vars, cache_vars, expiry_vars, bg_vars, scan_in >>

\* round(_calc_spread_pct(bid, ask), 2), in hundredths of a percent
SpreadRun ==
  /\ scan_in.kind = "spread" /\ ~scan_out.done
  /\ scan_out' = [NoScanOut EXCEPT !.done = TRUE,
                                   !.spread = _calc_spread_pct(scan_in.bid, scan_in.ask)]
  /\ UNCHANGED << extra_vars, whale_vars, round_vars, cache_vars, expiry_vars, bg_vars, scan_in >>

NextScan == ScanRun \/ TierRun \/ QualifyRun \/ SpreadRun
SpecScan == InitScan /\ [][NextScan]_vars

\* ------------------------------------------------ the directional gate alone
\* The gate of lines 267-292 with fetch_crypto_context (ai.py 90-113) behind
\* it. In the loop above, Spots stands for whatever fetch_crypto_context
\* hands back; here its cache and its request are explicit.
CryptoData ==
  { [btc_usd |-> b, eth_usd |-> e] : b \in Spots("btc_usd"), e \in Spots("eth_usd") }
\* ages of a filled _crypto_cache: inside and outside the TTL
CryptoAges == { CRYPTO_TTL \div 2, CRYPTO_TTL + 60 }
CryptoCaches ==
  { ColdCryptoCache } \cup
  { [ts |-> ClockStart - a, data |-> d] : a \in CryptoAges, d \in CryptoData }
\* candidates of the gate: bitcoin and ether markets with a strike, a
\* bitcoin market without one, and a market of another kind
DirCandidates ==
  { [ticker |-> MktC.ticker, event_ticker |-> MktC.event_ticker],
    [ticker |-> MktG.ticker, event_ticker |-> MktG.event_ticker],
    [ticker |-> "KXBTC-26JAN3021-UP", event_ticker |-> MktC.event_ticker],
    [ticker |-> MktA.ticker, event_ticker |-> MktA.event_ticker] }

\* fetch_crypto_context: the dict returned, where it came from and the cache
\* afterwards
fetch_crypto_context(cache, t, failed, net) ==
  IF cache.data # NoCrypto /\ t - cache.ts < CRYPTO_TTL
  THEN [data |-> cache.data, how |-> "cache", cache |-> cache]
  ELSE IF failed
  THEN [data |-> cache.data, how |-> "error", cache |-> cache]
  ELSE [data |-> net, how |-> "ok", cache |-> [ts |-> t, data |-> net]]

IsCrypto(event_prefix) ==
  StartsWith(event_prefix, "KXBTC") \/ StartsWith(event_prefix, "KXETH")

InitDir ==
  /\ WhaleInit /\ args.caller = "direct" /\ ~scan_binds /\ positions = {}
  /\ RoundInit /\ CacheIdle /\ ExpiryIdle /\ ScanIdle /\ BgIdle /\ LockIdle /\ CtlIdle
  /\ crypto_cache \in CryptoCaches
  /\ \E c \in DirCandidates, side \in { "yes", "no" }, failed \in BOOLEAN,
        net \in CryptoData :
       dir_in = [ticker |-> c.ticker, event_ticker |-> c.event_ticker, side |-> side,
                 now |-> ClockStart, failed |-> failed,
                 net |-> IF failed THEN NoCrypto ELSE net]
  /\ dir_out = NoDirOut

\* the gate for one candidate: next is "loop" for the continue statements of
\* lines 282 and 285 and "ai" when the candidate goes on to the next gate
DirectionalRun ==
  /\ ~dir_out.done
  /\ LET strike == extract_strike_price(dir_in.ticker)
         asset_key == IF Contains(dir_in.event_ticker, "BTC") THEN "btc_usd"
                      ELSE "eth_usd"
         got == fetch_crypto_context(crypto_cache, dir_in.now, dir_in.failed, dir_in.net)
         spot == IF asset_key = "btc_usd" THEN got.data.btc_usd ELSE got.data.eth_usd
     IN IF IsCrypto(dir_in.event_ticker) /\ strike # NotNum
        THEN /\ crypto_cache' = got.cache
             /\ dir_out' = [done |-> TRUE, how |-> got.how, spot |-> spot,
                            next |-> IF spot # NoPrice
                                        /\ Contrarian(dir_in.side, spot, strike)
                                     THEN "loop" ELSE "ai"]
        ELSE /\ crypto_cache' = crypto_cache
             /\ dir_out' = [NoDirOut EXCEPT !.done = TRUE, !.next = "ai"]
  /\ UNCHANGED << whale_vars, round_vars, cache_vars, expiry_vars, scan_vars, bg_vars,
                  lock_vars, ctl_vars, dir_in >>

NextDir == DirectionalRun
SpecDir == InitDir /\ [][NextDir]_vars

\* ------------------------------------------------- the cache lock, by step
\* _fetch_all_markets (43-110) and the age test of _bg_refresh_loop (123-125)
\* with _cache_lock explicit. A caller is idle, inside one of the three
\* with-blocks ("age_lock", "read_lock", "write_lock"), about to send a page
\* request ("request"), waiting for its answer ("inflight"), about to enter
\* the write block ("write_wait"), or has left the call ("hit", "done",
\* "raised").
Callers == 1 .. MaxCallers
\* the lock once a caller has left the with-block of lines 54-57 on a miss,
\* had the request been made inside the block
LockKeptAfterRead(c) == c
\* leaving a with-block releases the lock
LockAfterRead(c) == 0
\* _market_cache when the callers arrive: never filled, fresh, expired
LockCaches ==
  { ColdMarketCache,
    StoreInCache(<< MktD >>, ClockStart - ClockStep),
    StoreInCache(<< MktD >>, ClockStart - MARKET_CACHE_TTL - ClockStep) }
\* what one page request brings
LockPages == { << MktA >>, << MktB >> }

InitLock ==
  /\ WhaleInit /\ args.caller = "direct" /\ ~scan_binds /\ positions = {}
  /\ RoundInit /\ ExpiryIdle /\ ScanIdle /\ BgIdle /\ DirIdle /\ LockIdle /\ CtlIdle
  /\ market_cache \in LockCaches
  /\ now = ClockStart
  /\ fetch_ret = NoFetch

LockFrame ==
  UNCHANGED << whale_vars, round_vars, expiry_vars, scan_vars, bg_vars, dir_vars,
               ctl_vars, now, fetch_ret >>

\* a foreground call enters the with-block of line 54
EnterRead(c) ==
  /\ callers[c].pc \in { "idle", "start" } /\ cache_lock = 0
  /\ cache_lock' = c
  /\ callers' = [callers EXCEPT ![c].pc = "read_lock"]
  /\ UNCHANGED market_cache /\ LockFrame

\* lines 55-57: the cache test, and the end of the block
LeaveRead(c) ==
  /\ callers[c].pc = "read_lock"
  /\ IF CacheFresh(market_cache, now)
     THEN /\ callers' = [callers EXCEPT ![c].pc = "hit",
                                        ![c].fetched = market_cache.markets]
          /\ cache_lock' = 0
     ELSE /\ callers' = [callers EXCEPT ![c].pc = "request"]
          /\ cache_lock' = LockAfterRead(c)
  /\ UNCHANGED market_cache /\ LockFrame

\* a refresher enters the with-block of line 123
EnterAge(c) ==
  /\ callers[c].pc = "idle" /\ cache_lock = 0
  /\ cache_lock' = c
  /\ callers' = [callers EXCEPT ![c].pc = "age_lock"]
  /\ UNCHANGED market_cache /\ LockFrame

\* lines 124-127: the age test, the end of the block, and the call of
\* _fetch_all_markets when a refresh is due
LeaveAge(c) ==
  /\ callers[c].pc = "age_lock"
  /\ callers' = [callers EXCEPT ![c].pc =
                   IF NeedsRefresh(now - market_cache.ts) THEN "start" ELSE "done"]
  /\ cache_lock' = 0
  /\ UNCHANGED market_cache /\ LockFrame

\* _fetch_page sends a request (33)
SendPage(c) ==
  /\ callers[c].pc = "request"
  /\ callers' = [callers EXCEPT ![c].pc = "inflight", ![c].pages = @ + 1]
  /\ UNCHANGED << market_cache, cache_lock >> /\ LockFrame

\* the answer arrives: the request raises, or brings a page with or without
\* a cursor (65-87)
ReceivePage(c) ==
  /\ callers[c].pc = "inflight"
  /\ \/ callers' = [callers EXCEPT ![c].pc = "raised"]
     \/ \E page \in LockPages, cursor \in BOOLEAN :
          callers' = [callers EXCEPT
                        ![c].fetched = @ \o page,
                        ![c].pc = IF cursor /\ callers[c].pages < 2 THEN "request"
                                  ELSE "write_wait"]
  /\ UNCHANGED << market_cache, cache_lock >> /\ LockFrame

\* the with-block of line 106 is entered
EnterWrite(c) ==
  /\ callers[c].pc = "write_wait" /\ cache_lock = 0
  /\ cache_lock' = c
  /\ callers' = [callers EXCEPT ![c].pc = "write_lock"]
  /\ UNCHANGED market_cache /\ LockFrame

\* lines 107-110
LeaveWrite(c) ==
  /\ callers[c].pc = "write_lock"
  /\ market_cache' = StoreInCache(callers[c].fetched, now)
  /\ cache_lock' = 0
  /\ callers' = [callers EXCEPT ![c].pc = "done"]
  /\ LockFrame

\* the thread calls again later
CallAgain(c) ==
  /\ callers[c].pc \in { "hit", "done", "raised" }
  /\ callers' = [callers EXCEPT ![c] = NoCaller]
  /\ UNCHANGED << market_cache, cache_lock >> /\ LockFrame

NextLock ==
  \/ \E c \in Callers : EnterRead(c)
  \/ \E c \in Callers : LeaveRead(c)
  \/ \E c \in Callers : EnterAge(c)
  \/ \E c \in Callers : LeaveAge(c)
  \/ \E c \in Callers : SendPage(c)
  \/ \E c \in Callers : ReceivePage(c)
  \/ \E c \in Callers : EnterWrite(c)
  \/ \E c \in Callers : LeaveWrite(c)
  \/ \E c \in Callers : CallAgain(c)
SpecLock == InitLock /\ [][NextLock]_vars

\* ------------------------------------------------- the scan-result cache
\* scan called several times in one process, with and without use_cache
\* (lines 281-285 and 466-469). scan_cache.valid stands for a cache that has
\* been filled and is younger than its ttl of 300 s; the fetch is a choice
\* of the list it brings, as in ScanStep.
\* the lists a fetch brings, and the volume floors callers ask for
CachedScanLists == { << >>, << MktD >>, << MktA, MktB >>, << MktF, MktD >> }
ScanMinVolumes == { DefaultMinVolume, 20000 }
CachedScanInputs ==
  { [kind |-> k, markets |-> ms, min_price |-> mp, prefixes |-> ps,
     min_volume |-> mv, top_n |-> n, bid |-> 0, ask |-> 0, rank |-> 0] :
    k \in { "scan", "cached" }, ms \in CachedScanLists, mp \in ScanMinPrices,
    ps \in ScanPrefixSets, mv \in ScanMinVolumes, n \in ScanTopNs }

InitScanCache ==
  /\ WhaleInit /\ args.caller = "direct" /\ ~scan_binds /\ positions = {}
  /\ RoundInit /\ ExtraIdle /\ CacheIdle /\ ExpiryIdle /\ ScanIdle /\ BgIdle

\* one call of scan; kind "cached" is use_cache=True
CachedScanCall ==
  \E inp \in CachedScanInputs :
    LET fresh == scan(inp.markets, inp.min_price, inp.prefixes, inp.min_volume,
                      inp.top_n)
        hit == inp.kind = "cached" /\ scan_cache.valid
    IN /\ scan_in' = inp
       /\ scan_out' = [NoScanOut EXCEPT !.done = TRUE,
                         !.results = IF hit THEN scan_cache.results ELSE fresh]
       /\ scan_cache' = IF hit THEN scan_cache
                        ELSE [valid |-> TRUE, results |-> fresh]
       /\ UNCHANGED << extra_vars, whale_frame, round_vars, cache_vars, expiry_vars,
                       bg_vars >>

\* 300 s pass without a scan
ScanCacheExpires ==
  /\ scan_cache.valid
  /\ scan_cache' = [scan_cache EXCEPT !.valid = FALSE]
  /\ UNCHANGED << extra_vars, whale_frame, round_vars, cache_vars, expiry_vars,
                  bg_vars, scan_vars >>

NextScanCache == CachedScanCall \/ ScanCacheExpires
SpecScanCache == InitScanCache /\ [][NextScanCache]_vars

\* ------------------------------------------------- the web control routes
\* control_start, control_stop and the thread _run of web.py (840-977). Each
\* with-block on _whale_lock is one step: the lock is a threading.Lock and
\* every write of running and stop_requested happens inside such a block.
Requests == 1 .. MaxRequests
Runners == 1 .. MaxRunners

\* a start that does not look at the flag
StartAlways(running) == TRUE
\* the test of line 844
StartAllowed(running) == ~running

\* what one call of run_whale_strategy gives the loop (919-941): a trade
\* that fills the last slot, a trade, a stop reason, nothing to trade, or
\* an exception
StrategyOutcomes ==
  { "traded_full", "traded", "daily_loss", "max_positions", "none",
    "StopRequested", "Exception" }

InitControl ==
  /\ WhaleInit /\ args.caller = "direct" /\ ~scan_binds /\ positions = {}
  /\ RoundInit /\ CacheIdle /\ ExpiryIdle /\ ScanIdle /\ BgIdle /\ ExtraIdle

ControlFrame ==
  UNCHANGED << whale_vars, round_vars, cache_vars, expiry_vars, scan_vars, bg_vars,
               dir_vars, lock_vars >>

\* control_start, the with-block of lines 843-848
StartRequest(h) ==
  /\ requests[h].pc = "idle"
  /\ IF StartAllowed(whale_state.running)
     THEN /\ whale_state' = [running |-> TRUE, stop_requested |-> FALSE]
          /\ requests' = [requests EXCEPT ![h] = [pc |-> "spawn", last |-> "started"]]
     ELSE /\ requests' = [requests EXCEPT ![h].last = "refused"]
          /\ UNCHANGED whale_state
  /\ UNCHANGED runners
  /\ ControlFrame

\* control_start, lines 850-968: the form is parsed, the settings stored,
\* the thread created and started
SpawnRunner(h) ==
  /\ requests[h].pc = "spawn"
  /\ \E t \in Runners :
       /\ runners[t].pc \in { "none", "ended" }
       /\ runners' = [runners EXCEPT ![t] = [pc |-> "init", how |-> "none"]]
  /\ requests' = [requests EXCEPT ![h].pc = "idle"]
  /\ UNCHANGED whale_state
  /\ ControlFrame

\* control_stop (971-977)
StopRequest ==
  /\ whale_state' = [whale_state EXCEPT !.stop_requested = TRUE]
  /\ UNCHANGED << requests, runners >>
  /\ ControlFrame

\* _run, lines 884-903: db.init_db and _get_client, either of which can raise
RunnerInit(t) ==
  /\ runners[t].pc = "init"
  /\ \/ runners' = [runners EXCEPT ![t].pc = "check"]
     \/ runners' = [runners EXCEPT ![t] = [pc |-> "finally", how |-> "exception"]]
  /\ UNCHANGED << whale_state, requests >>
  /\ ControlFrame

\* top of the while loop (906-917): the stop test and the position count
RunnerCheck(t) ==
  /\ runners[t].pc = "check"
  /\ IF whale_state.stop_requested
     THEN runners' = [runners EXCEPT ![t] = [pc |-> "finally", how |-> "stopped"]]
     ELSE \/ runners' = [runners EXCEPT ![t].pc = "strategy"]
          \/ runners' = [runners EXCEPT ![t] = [pc |-> "finally", how |-> "normal"]]
  /\ UNCHANGED << whale_state, requests >>
  /\ ControlFrame

\* run_whale_strategy and what the loop does with its result (924-948);
\* StopRequested is raised only after stop_check has seen the flag
RunnerStrategy(t) ==
  /\ runners[t].pc = "strategy"
  /\ \E o \in StrategyOutcomes :
       /\ o = "StopRequested" => whale_state.stop_requested
       /\ runners' =
            [runners EXCEPT ![t] =
               CASE o = "traded" -> [pc |-> "check", how |-> "none"]
                 [] o = "none" -> [pc |-> "wait", how |-> "none"]
                 [] o \in { "traded_full", "daily_loss", "max_positions" } ->
                      [pc |-> "finally", how |-> "normal"]
                 [] o = "StopRequested" -> [pc |-> "finally", how |-> "stopped"]
                 [] OTHER -> [pc |-> "finally", how |-> "exception"]]
  /\ UNCHANGED << whale_state, requests >>
  /\ ControlFrame

\* the wait of 60 s (942-948), left early when a stop is seen
RunnerWait(t) ==
  /\ runners[t].pc = "wait"
  /\ IF whale_state.stop_requested
     THEN runners' = [runners EXCEPT ![t] = [pc |-> "finally", how |-> "stopped"]]
     ELSE runners' = [runners EXCEPT ![t].pc = "check"]
  /\ UNCHANGED << whale_state, requests >>
  /\ ControlFrame

\* the finally block (960-962), after which the thread ends
RunnerFinally(t) ==
  /\ runners[t].pc = "finally"
  /\ whale_state' = [whale_state EXCEPT !.running = FALSE]
  /\ runners' = [runners EXCEPT ![t].pc = "ended"]
  /\ UNCHANGED requests
  /\ ControlFrame

NextControl ==
  \/ \E h \in Requests : StartRequest(h)
  \/ \E h \in Requests : SpawnRunner(h)
  \/ StopRequest
  \/ \E t \in Runners : RunnerInit(t)
  \/ \E t \in Runners : RunnerCheck(t)
  \/ \E t \in Runners : RunnerStrategy(t)
  \/ \E t \in Runners : RunnerWait(t)
  \/ \E t \in Runners : RunnerFinally(t)
SpecControl == InitControl /\ [][NextControl]_vars

\* ----------------------------------------------- two invocations in a row
\* The web control loop (web.py 907-948): a round that returned without a
\* trade, and not because of the daily-loss or the position limit, waits 60
\* seconds (leaving when stop is requested) and starts the next round: the
\* position count is read again and run_whale_strategy is called with the
\* same keyword arguments. The Store, the exchange and scanner._scan_cache
\* (TTL 300 s) are what the first round left.
Reinvoke ==
  /\ pc = "returned"
  /\ args.caller = "web"
  /\ round_num < MaxRounds
  /\ ret.traded = 0
  /\ ret.stopped_reason \notin { "daily_loss", "max_positions" }
  /\ ~stop_requested
  /\ count_open_positions(positions) < args.max_positions
  /\ round_num' = round_num + 1
  /\ first' = [trades |-> Len(trades), balances |-> Len(balance_history),
               skipped |-> ret.skipped, full |-> "selected_ticker" \in DOMAIN ret]
  /\ pc' = "call"
  /\ balance_cents' = 0
  /\ daily_loss' = Unread
  /\ open_count' = Unread
  /\ live_resp' = NoResp
  /\ candle_resp' = NoResp
  /\ results' = <<>>
  /\ available' = <<>>
  /\ idx' = 0
  /\ cur' = NoCur
  /\ order_res' = NoOrder
  /\ summary' = NoSummary
  /\ ret' = NoRet
  /\ ai_resp' = NoAI
  /\ submits' = 0
  /\ UNCHANGED << extra_vars, cache_vars, expiry_vars, scan_vars, bg_vars,
                  args, scan_binds, stop_requested, exc,
                  exch_orders, trades, positions, balance_history, scan_cache >>

NextTwice == Next \/ Reinvoke

\* The control loop's process at its first round, with a run_whale_strategy
\* whose scan call binds; scanner._scan_cache still holds the results of a
\* scan made less than 300 s ago with the loop's own filters.
WarmMarketLists == { << MktA, MktB >> }
WebArgs == { a \in ArgSets : a.caller = "web" }

InitTwice ==
  /\ WhaleStart /\ RoundInit /\ ExtraIdle /\ CacheIdle /\ ExpiryIdle /\ ScanIdle /\ BgIdle
  /\ args \in WebArgs
  /\ scan_binds
  /\ \E ms \in WarmMarketLists :
       scan_cache = [valid |-> TRUE,
                     results |-> scan(ms, args.min_price, args.prefixes,
                                      args.min_volume, ScanTopN)]

SpecTwice == InitTwice /\ [][NextTwice]_vars

\* ------------------------------------------------------------------- claims
\* C1: first fill wins. Within one invocation at most one order placed on
\* the exchange has a non-zero fill, whatever the Store calls that follow the
\* fill do.
C1_AtMostOneFilledOrder ==
  Cardinality({ k \in DOMAIN exch_orders : exch_orders[k].fill_count > 0 }) <= 1

\* C2: no resting exposure. Whenever the loop is about to take the next
\* candidate, or the invocation has left the loop or returned, no order it
\* placed is resting on the exchange with a remaining count above zero.
C2_NoRestingOrderLeft ==
  pc \in { "loop", "finish", "returned" } =>
    \A k \in DOMAIN exch_orders :
      ~(exch_orders[k].status = "resting" /\ exch_orders[k].remaining_count > 0)

\* C3: daily loss abort. Once the realized loss read is greater than or equal
\* to the limit int(balance * 5%), equality included, the invocation has
\* returned stopped_reason "daily_loss" and nothing after the check has run:
\* no position count, no scan, no candidate, no gate, no order, no trade row.
C3_DailyLossAbort ==
  (daily_loss # Unread /\ daily_loss >= MaxDailyLoss(balance_cents)) =>
    /\ pc = "returned"
    /\ ret = [scanned |-> 0, skipped |-> 0, traded |-> 0, orders |-> 0,
              stopped_reason |-> "daily_loss"]
    /\ open_count = Unread
    /\ results = <<>> /\ available = <<>> /\ idx = 0 /\ cur = NoCur
    /\ live_resp = NoResp /\ candle_resp = NoResp
    /\ exch_orders = <<>> /\ trades = <<>>

C3_Witness ==
  /\ pc = "returned"
  /\ balance_cents = 29000
  /\ daily_loss = 1450
  /\ ret.stopped_reason = "daily_loss"

\* C4: position limit abort. The position count is read only after the daily
\* loss check passed; once the count read is greater than or equal to
\* max_positions the invocation has returned stopped_reason "max_positions"
\* with no scan and no order; and when the daily loss limit is reached while
\* the book is also full, the reason returned is "daily_loss" and the
\* position count was never read.
C4_PositionLimitAbort ==
  /\ open_count # Unread =>
       (daily_loss # Unread /\ daily_loss < MaxDailyLoss(balance_cents))
  /\ (open_count # Unread /\ open_count >= args.max_positions) =>
       /\ pc = "returned"
       /\ ret = [scanned |-> 0, skipped |-> 0, traded |-> 0, orders |-> 0,
                 stopped_reason |-> "max_positions"]
       /\ results = <<>> /\ available = <<>> /\ idx = 0
       /\ exch_orders = <<>> /\ trades = <<>>
  /\ (/\ daily_loss # Unread
      /\ daily_loss >= MaxDailyLoss(balance_cents)
      /\ Cardinality({ q \in positions : q.quantity > 0 }) >= args.max_positions) =>
       /\ pc = "returned"
       /\ ret.stopped_reason = "daily_loss"
       /\ open_count = Unread

C4_Witness ==
  /\ pc = "returned"
  /\ open_count = 1
  /\ args.max_positions = 1
  /\ ret.stopped_reason = "max_positions"

\* C5: cooperative cancellation. A step from the top of the loop with a
\* candidate left and the stop predicate true marks the summary "stopped" and
\* leaves the loop without a gate, an exchange call or a Store write; from
\* then on the only step is the return of that summary, with the cursor, the
\* exchange orders, the trade rows and the positions untouched.
C5_StopEndsTheLoop ==
  [][ /\ (pc = "loop" /\ idx <= Len(available) /\ args.has_stop /\ stop_requested) =>
           /\ pc' = "finish"
           /\ summary'.stopped_reason = "stopped"
           /\ live_resp' = NoResp /\ candle_resp' = NoResp
           /\ UNCHANGED << idx, cur, order_res, exch_orders, trades, positions,
                           balance_history >>
      /\ summary.stopped_reason = "stopped" =>
           /\ pc' = "returned"
           /\ ret' = summary
           /\ UNCHANGED << idx, cur, order_res, exch_orders, trades, positions,
                           balance_history, live_resp, candle_resp >> ]_vars

C5_Witness ==
  /\ pc = "returned"
  /\ ret.stopped_reason = "stopped"
  /\ idx = 2
  /\ Len(available) = 2
  /\ Len(exch_orders) = 1

\* C6: a failure of one candidate never aborts the run. Once the candidate
\* loop has started, no exception leaves run_whale_strategy.
C6_NoExceptionLeavesTheLoop ==
  ~(pc = "raised" /\ idx >= 1)

C8_VelocityFailsOpen ==
  [][ (pc = "velocity" /\ candle_resp'.outcome = "error") =>
        /\ \A c \in CandleLists : ~_check_price_velocity(FALSE, c, cur.ask_price)
        /\ pc' = "directional"
        /\ idx' = idx
        /\ cur' = cur
        /\ exch_orders' = exch_orders ]_vars

C8_Witness ==
  /\ pc = "directional"
  /\ candle_resp.outcome = "error"
  /\ candle_resp.idx = idx
  /\ cur.ticker = available[idx].ticker

\* C9: every invocation returns a summary. The invocation never ends by
\* raising, and what it returns holds the scanned, skipped, orders and traded
\* counts, stopped_reason and selected_ticker.
C9_AlwaysReturnsSummary ==
  /\ pc # "raised"
  /\ pc = "returned" =>
       DOMAIN ret = { "scanned", "skipped", "traded", "orders", "stopped_reason",
                      "selected_ticker" }

\* rank order of C10, stated on its own: a sorts strictly before b
C10Before(a, b) ==
  LET hours_before == a.hours_left # HrsNone
                      /\ (b.hours_left = HrsNone \/ a.hours_left < b.hours_left)
      hours_same == (a.hours_left = HrsNone /\ b.hours_left = HrsNone)
                    \/ (a.hours_left # HrsNone /\ b.hours_left # HrsNone
                        /\ a.hours_left = b.hours_left)
  IN \/ a.tier < b.tier
     \/ a.tier = b.tier /\ hours_before
     \/ a.tier = b.tier /\ hours_same /\ a.signal_price > b.signal_price
     \/ a.tier = b.tier /\ hours_same /\ a.signal_price = b.signal_price
        /\ a.dollar_24h > b.dollar_24h

\* position of a ticker in a result list
C10Position(res, ticker) == CHOOSE k \in DOMAIN res : res[k].ticker = ticker

\* av is res restricted to some of its elements, in rank order, elements of
\* equal rank in the order of res
C10Ranked(av, res) ==
  /\ \A i \in DOMAIN av : \E k \in DOMAIN res : res[k] = av[i]
  /\ \A i, j \in DOMAIN av :
       i < j =>
         /\ av[i].ticker # av[j].ticker
         /\ ~C10Before(av[j], av[i])
         /\ ~C10Before(av[i], av[j]) =>
              C10Position(res, av[i].ticker) < C10Position(res, av[j].ticker)

C11_ZeroFillContinues ==
  /\ ~(/\ pc = "raised"
       /\ idx >= 1
       /\ \E k \in DOMAIN exch_orders :
            exch_orders[k].ticker = cur.ticker /\ exch_orders[k].fill_count = 0)
  /\ (/\ pc \in { "finish", "returned" }
      /\ idx > Len(available)
      /\ \A k \in DOMAIN exch_orders : exch_orders[k].fill_count = 0) =>
       (summary.stopped_reason = "None" /\ summary.traded = 0)

\* C12: the counters follow submissions. In the summary a finished loop
\* returns, orders is the number of submissions made, traded is 1 exactly
\* when one submitted order filled (in a dry run: when the one simulated
\* submission was made), and selected_ticker is the ticker of the last
\* candidate evaluated.
C12_CountersFollowSubmissions ==
  (pc = "returned" /\ "selected_ticker" \in DOMAIN ret) =>
    LET filled == { k \in DOMAIN exch_orders : exch_orders[k].fill_count > 0 }
        evaluated == IF ret.stopped_reason = "stopped" THEN idx - 1
                     ELSE IF idx > Len(available) THEN Len(available) ELSE idx
    IN /\ ret.orders = submits
       /\ ret.traded \in { 0, 1 }
       /\ ret.traded = 1 <=>
            (IF args.dry_run THEN submits = 1 ELSE Cardinality(filled) = 1)
       /\ ret.selected_ticker =
            (IF evaluated = 0 THEN "None" ELSE available[evaluated].ticker)

\* C13: every submission is recorded. In a live run, whenever the loop is
\* about to take the next candidate or has ended, the trades table holds
\* exactly one row per submission made, and an order has a position for its
\* ticker and side exactly when its fill count is above zero.
C13_EverySubmissionRecorded ==
  (~args.dry_run /\ pc \in { "loop", "finish", "returned" }) =>
    /\ Len(trades) = submits
    /\ \A k \in DOMAIN exch_orders :
         exch_orders[k].fill_count > 0 <=>
           \E q \in positions :
             q.ticker = exch_orders[k].ticker /\ q.side = exch_orders[k].side

\* C14: confidence gate. With the advisor enabled, a submission is made only
\* when the advisor was asked about this candidate, its recommended side does
\* not disagree with the chosen side, its confidence is absent or at least
\* min_confidence (a reported confidence below it, 0 included, rejects), and
\* should_trade is not false.
C14_ConfidenceGate ==
  [][ (pc = "submit" /\ submits' = submits + 1 /\ args.with_ai) =>
        /\ ai_resp.idx = idx
        /\ ai_resp.expected_outcome \in { "Yes", "YES" } => cur.side = "yes"
        /\ ai_resp.expected_outcome \in { "No", "NO" } => cur.side = "no"
        /\ ai_resp.answered => ai_resp.confidence >= 75
        /\ ai_resp.should_trade ]_vars

C16_HeldFilterByTickerAndSide ==
  (pc = "loop" /\ idx = 1) =>
    LET open_pair(c) == \E q \in positions :
                          q.quantity > 0 /\ q.ticker = c.ticker /\ q.side = c.signal_side
        listed(c) == \E i \in DOMAIN available : available[i].ticker = c.ticker
    IN \A k \in DOMAIN results :
         LET c == results[k]
         IN (c.qualified /\ c.signal_ask <= 98 /\ _within_expiry(c, args.max_hours)) =>
              (listed(c) <=> ~open_pair(c))

\* C19: a risk abort has no side effects. An invocation that returned
\* stopped_reason "daily_loss" or "max_positions" has written nothing to the
\* Store and placed no order.
C19_RiskAbortWritesNothing ==
  (pc = "returned" /\ ret.stopped_reason \in { "daily_loss", "max_positions" }) =>
    /\ balance_history = <<>>
    /\ trades = <<>>
    /\ exch_orders = <<>>

\* C17: for every configured max_hours_to_expiration, any hours_left admitted
\* by the expiry window for a candidate with spread_pct > 2.5 is also admitted
\* for a candidate with spread_pct <= 2.5 (the tight window is at least as
\* long as the wide one).
C17_TightWindowAtLeastWide ==
  exp_out.done => (exp_out.wide => exp_out.tight)

\* C18: when a second invocation follows the first with no fill in between
\* and the same candidate set (the scan results are the cached ones), the
\* second invocation skips as many held candidates as the first and appends
\* no row to the trades table or to balance_history that equals a row the
\* first invocation wrote.
C18_SecondInvocationIdempotent ==
  ( /\ round_num = 2
    /\ pc = "returned"
    /\ \A k \in DOMAIN exch_orders : exch_orders[k].fill_count = 0 ) =>
      /\ (first.full /\ "selected_ticker" \in DOMAIN ret) => ret.skipped = first.skipped
      /\ \A i \in (first.trades + 1) .. Len(trades) :
           \A j \in 1 .. first.trades : trades[i] # trades[j]
      /\ \A i \in (first.balances + 1) .. Len(balance_history) :
           \A j \in 1 .. first.balances : balance_history[i] # balance_history[j]

\* C20: a call to _fetch_all_markets made less than the TTL after the last
\* completed fetch returns the cached list with from_cache true and makes no
\* network request, whatever list that fetch stored.
C20_CacheHitWithinTTL ==
  (fetch_ret.called /\ fetch_ret.completed /\ fetch_ret.age < MARKET_CACHE_TTL) =>
    /\ ~fetch_ret.raised
    /\ fetch_ret.from_cache
    /\ fetch_ret.requests = 0
    /\ fetch_ret.obtained = fetch_ret.cached

\* the cache age is at or above 80% of the TTL
C21CacheOld == NeedsRefresh(now - market_cache.ts)

\* C21: whenever a refresher thread has found the cache age at or above 80%
\* of the TTL, the fetch it then makes is a real one: when the thread goes
\* to sleep with the cache still that old, it has sent a network request,
\* also when the age is below the TTL.
C21_EarlyRefresh ==
  \A t \in Threads :
    (threads[t].pc = "sleep" /\ threads[t].needs_refresh /\ ~threads[t].failed
     /\ C21CacheOld) => threads[t].requests > 0

\* C22: under every interleaving of start_background_refresh and
\* stop_background_refresh, at most one refresher thread is alive.
C22_SingleRefresher ==
  Cardinality({ t \in Threads : Alive(t) }) <= 1

\* C23: a thread that has left the loop takes no further step, a thread that
\* reads the running flag clear leaves the loop at once, a stop while the
\* flag is clear changes nothing, and when the flag stays clear from some
\* point on, every refresher thread eventually has exited for good.
C23_RefresherShutdown ==
  /\ [][ /\ \A t \in Threads :
             /\ threads[t].pc = "done" => threads'[t] = threads[t]
             /\ (~bg_refresh.running /\ threads[t].pc \in { "top", "sleep" }
                 /\ threads'[t] # threads[t]) => threads'[t].pc = "done"
         /\ (~bg_refresh.running /\ ~bg_refresh'.running) =>
               \A t \in Threads : Alive(t)' => Alive(t) ]_vars
  /\ (<>[](~bg_refresh.running)) => <>[](\A t \in Threads : ~Alive(t))

C23_Witness ==
  /\ ~bg_refresh.running
  /\ threads[1].pc = "done"
  /\ market_cache.ts > 0

\* the cache holds a list that counts as fresh, or one written less than 80%
\* of the TTL ago: another writer has stored its fetch since
C24CacheRewritten ==
  CacheFresh(market_cache, now) \/ ~NeedsRefresh(now - market_cache.ts)

\* C24: a fetch of a refresher thread that raises leaves the thread in its
\* loop, leaves the cache slot, the running flag and every other thread and
\* caller as they were, and the thread later sends a request again, unless
\* it is stopped or another writer has refreshed the cache meanwhile.
C24_RefresherFailSafe ==
  /\ [][ \A t \in Threads :
           (threads[t].pc = "net" /\ threads'[t].failed) =>
             /\ threads'[t].pc = "sleep"
             /\ market_cache' = market_cache
             /\ bg_refresh' = bg_refresh
             /\ fetch_ret' = fetch_ret
             /\ exc' = exc
             /\ \A u \in Threads \ { t } : threads'[u] = threads[u] ]_vars
  /\ \A t \in Threads :
       (threads[t].failed /\ threads[t].pc = "sleep") ~>
         \/ threads[t].pc = "net"
         \/ threads[t].pc = "done"
         \/ C24CacheRewritten

C24_Witness ==
  /\ bg_refresh.running
  /\ threads[1].pc = "sleep"
  /\ threads[1].failed
  /\ market_cache = ColdMarketCache

\* C25: a _fetch_all_markets call that missed the cache and had a page
\* request fail (it raised, or it brought no data) ends by raising and
\* stores nothing in the cache; it does not return a list.
C25_FailedFetchPropagates ==
  (fetch_ret.called /\ ~fetch_ret.from_cache /\ fetch_ret.failed) =>
    (fetch_ret.raised /\ ~fetch_ret.stored)

\* C26: the list held by the cache slot is the list as its writer stored it,
\* and the list a reader obtained from _fetch_all_markets stays as it was
\* when the reader got it: no operation changes either of them in place.
C26_CacheListNeverMutated ==
  /\ market_cache.markets = market_cache.written
  /\ (fetch_ret.called /\ ~fetch_ret.raised) => fetch_ret.markets = fetch_ret.obtained

\* the codes of the qualification predicates that candidate r fails
C27Failing(r) ==
  (IF ~(r.tier > 0) THEN { "tier0" } ELSE {})
  \cup (IF ~(r.dollar_rank <= 200) THEN { "rank" } ELSE {})
  \cup (IF ~(r.dollar_24h >= 10000) THEN { "volume" } ELSE {})
  \cup (IF ~(r.spread_pct <= 500) THEN { "spread" } ELSE {})
  \cup (IF ~(r.hours_left # HrsNone /\ 0 < r.hours_left /\ r.hours_left <= 24)
        THEN { "expiry" } ELSE {})

C28PassesFilters(m) ==
  /\ scan_in.prefixes = {} \/ \E p \in scan_in.prefixes : StartsWith(m.event_ticker, p)
  /\ m.volume_24h >= scan_in.min_volume

\* C28: when a scan has looked at a quote that passes the prefix and volume
\* filters and whose ask is 99 or more, with no quote on the other side (yes
\* bid 98, yes ask 99, 24h volume 50000, min_volume 10000), its output holds
\* a candidate for that ticker with tier 0, qualified false and fail_reasons
\* ["tier0"].
C28_Tier0Reported ==
  (scan_out.done /\ scan_in.kind = "scan" /\ scan_in.top_n >= Len(scan_in.markets)) =>
    \A i \in DOMAIN scan_in.markets :
      LET m == scan_in.markets[i]
      IN (m.yes_ask >= 99 /\ m.no_bid = 0 /\ m.no_ask = 0 /\ C28PassesFilters(m)) =>
           \E j \in DOMAIN scan_out.results :
             /\ scan_out.results[j].ticker = m.ticker
             /\ scan_out.results[j].tier = 0
             /\ ~scan_out.results[j].qualified
             /\ scan_out.results[j].fail_reasons = << "tier0" >>

\* the tier of an ask as the tier table states it
C29Tier(ask) ==
  IF ask >= 99 THEN 0
  ELSE IF ask = 98 THEN 1
  ELSE IF 96 <= ask /\ ask <= 97 THEN 2
  ELSE 3

C30_DenseDollarRank ==
  (scan_out.done /\ scan_in.kind = "scan") =>
    LET rs == scan_out.ranked
    IN /\ { rs[i].dollar_rank : i \in DOMAIN rs } = 1 .. Len(rs)
       /\ { scan_out.results[i].dollar_rank : i \in DOMAIN scan_out.results }
            = 1 .. Len(rs)
       /\ \A i, j \in DOMAIN rs :
            /\ rs[i].dollar_24h > rs[j].dollar_24h => rs[i].dollar_rank < rs[j].dollar_rank
            /\ (rs[i].dollar_24h = rs[j].dollar_24h /\ i < j) =>
                 rs[i].dollar_rank < rs[j].dollar_rank

\* a scan of three quotes of which one was filtered out; the two candidates
\* have the same dollar_24h and the one with the larger 24h volume, first in
\* the candidate list, got rank 1 though it came last in the fetched list
C30_Witness ==
  /\ scan_out.done /\ scan_in.kind = "scan"
  /\ scan_in.markets = << MktL, MktQ, MktP >>
  /\ Len(scan_out.ranked) = 2
  /\ scan_out.ranked[1].ticker = MktP.ticker /\ scan_out.ranked[1].dollar_rank = 1
  /\ scan_out.ranked[2].ticker = MktQ.ticker /\ scan_out.ranked[2].dollar_rank = 2
  /\ scan_out.ranked[1].dollar_24h = scan_out.ranked[2].dollar_24h

\* C31: for every bid and ask in 0..100 _calc_spread_pct returns 0 when the
\* bid is 0, the ask is 0 or the ask is not above the bid, and a candidate of
\* a scan output whose bid and ask are such carries spread_pct 0.
C31_SpreadZeroCases ==
  /\ (scan_out.done /\ scan_in.kind = "spread"
        /\ (scan_in.bid = 0 \/ scan_in.ask = 0 \/ scan_in.ask <= scan_in.bid)) =>
       scan_out.spread = 0
  /\ (scan_out.done /\ scan_in.kind = "scan") =>
       \A i \in DOMAIN scan_out.results :
         LET r == scan_out.results[i]
         IN (r.signal_price = 0 \/ r.signal_ask = 0 \/ r.signal_ask <= r.signal_price) =>
              r.spread_pct = 0

\* a scan whose output holds a candidate without a bid and a candidate with
\* a crossed quote, both with spread_pct 0
C31_Witness ==
  /\ scan_out.done /\ scan_in.kind = "scan"
  /\ \E i, j \in DOMAIN scan_out.results :
       /\ scan_out.results[i].signal_price = 0 /\ scan_out.results[i].spread_pct = 0
       /\ scan_out.results[j].signal_price > scan_out.results[j].signal_ask
       /\ scan_out.results[j].signal_ask > 0 /\ scan_out.results[j].spread_pct = 0

\* C32: whenever the realized loss read by the invocation is strictly below
\* 5% of the balance it read (100 * loss < 5 * balance, in cents), the
\* invocation has not returned with stopped_reason "daily_loss".
C32_DailyLossOnlyAtThreshold ==
  (pc = "returned" /\ daily_loss # Unread /\ 100 * daily_loss < 5 * balance_cents) =>
    ret.stopped_reason # "daily_loss"

\* C33: after the directional gate has run for a candidate: (a) a bitcoin or
\* ether market with a strike in its ticker and a spot price at hand does not
\* go on to the next gate on side "no" with spot > 1.005 * strike nor on side
\* "yes" with spot < 0.995 * strike; (b) when the ticker has no strike, no
\* spot price is at hand, or the price request failed, the candidate goes on
\* to the next gate; (c) so does every candidate of another kind of market.
C33_DirectionalGate ==
  dir_out.done =>
    LET strike == extract_strike_price(dir_in.ticker)
        crypto == IsCrypto(dir_in.event_ticker)
    IN /\ (crypto /\ strike # NotNum /\ dir_out.spot # NoPrice
            /\ \/ dir_in.side = "no" /\ 1000 * dir_out.spot > 1005 * strike
               \/ dir_in.side = "yes" /\ 1000 * dir_out.spot < 995 * strike)
           => dir_out.next # "ai"
       /\ (crypto /\ (strike = NotNum \/ dir_out.spot = NoPrice \/ dir_out.how = "error"))
           => dir_out.next = "ai"
       /\ ~crypto => dir_out.next = "ai"

\* C34: the holder of _cache_lock never has a page request pending or in
\* flight, so while a request is in flight the lock is free or held by a
\* thread inside one of the short with-blocks; every caller that missed the
\* cache writes the list its own requests collected, and each write replaces
\* the slot with the writer's list.
C34_LockNotHeldAcrossRequests ==
  /\ [](\A c \in Callers :
         /\ callers[c].pc \in { "request", "inflight", "write_wait" } => cache_lock # c
         /\ cache_lock = c => callers[c].pc \in { "age_lock", "read_lock", "write_lock" })
  /\ [][\A c \in Callers :
         (callers[c].pc = "write_lock" /\ callers'[c].pc = "done") =>
           /\ callers[c].pages >= 1
           /\ market_cache'.markets = callers[c].fetched]_vars

\* a reader holds the lock and finds a fresh cache, written after the other
\* caller missed, while that caller's request is still in flight
C34_Witness ==
  /\ callers[1].pc = "inflight"
  /\ callers[2].pc = "read_lock" /\ cache_lock = 2
  /\ CacheFresh(market_cache, now) /\ market_cache.ts = now

\* C35: every order placed on the exchange by the invocation carries a limit
\* price between min_price and 98 cents, and whenever the loop stands at the
\* submission of a candidate, live or dry-run, the limit price it is about to
\* use lies between min_price and 98 cents.
C35_PriceCeiling ==
  /\ \A k \in DOMAIN exch_orders :
       args.min_price <= exch_orders[k].price /\ exch_orders[k].price <= 98
  /\ pc = "submit" =>
       /\ args.min_price <= LimitPrice(cur.ask_price)
       /\ LimitPrice(cur.ask_price) <= 98

\* an order at the scan ask of 96 has just been placed for a candidate whose
\* live re-fetch raised
C35_Witness ==
  /\ \E k \in DOMAIN exch_orders : exch_orders[k].price = 96
  /\ live_resp.outcome = "error" /\ live_resp.idx = idx
  /\ pc = "record"

\* C36: an order is placed for a candidate only when the live re-fetch of
\* that candidate has succeeded in this invocation and returned an ask
\* between min_price and 98; after a live re-fetch that raised, no order is
\* placed for the candidate.
C36_NoOrderWithoutLiveRecheck ==
  [][Len(exch_orders') > Len(exch_orders) =>
       /\ live_resp.idx = idx
       /\ live_resp.outcome = "ok"
       /\ args.min_price <= live_resp.ask /\ live_resp.ask <= 98]_vars

\* C37: every list returned by a scan call with use_cache=True obeys the
\* filters of that call: each candidate's ask is at least min_price, its
\* event ticker starts with one of the prefixes when prefixes are given, its
\* 24h volume is at least min_volume, and there are at most top_n candidates.
C37_CachedScanObeysFilters ==
  (scan_out.done /\ scan_in.kind = "cached") =>
    /\ Len(scan_out.results) <= scan_in.top_n
    /\ \A i \in DOMAIN scan_out.results :
         LET r == scan_out.results[i]
         IN /\ r.signal_ask >= scan_in.min_price
            /\ scan_in.prefixes = {}
                 \/ \E p \in scan_in.prefixes : StartsWith(r.event_ticker, p)
            /\ r.volume_24h >= scan_in.min_volume

\* C38: in an invocation with dry_run true no order is created or cancelled
\* on the exchange and no trade row or position is written; the invocation
\* makes at most one simulated submission, which ends the loop with
\* traded = 1 and orders = 1, and these are the values it returns.
C38DryState ==
  args.dry_run =>
    /\ exch_orders = <<>>
    /\ trades = <<>>
    /\ order_res = NoOrder
    /\ submits <= 1
    /\ pc \notin { "failed", "record" }
    /\ (pc = "returned" /\ submits = 1) => (ret.traded = 1 /\ ret.orders = 1)
C38_DryRunIsolation ==
  /\ []C38DryState
  /\ [][ args.dry_run =>
           /\ positions' = positions
           /\ (pc = "submit" /\ submits' = submits + 1) =>
                (pc' = "finish" /\ summary'.traded = 1 /\ summary'.orders = 1) ]_vars
\* a dry run that reached a candidate past all gates and returned
C38_Witness ==
  /\ args.dry_run /\ pc = "returned" /\ submits = 1
  /\ ret.traded = 1 /\ idx <= Len(available)

\* C39: at most one thread is inside the try block of _run at any time, and
\* the running flag is set exactly while a start request is about to start
\* its thread or a thread is inside the try block; a start request handled
\* while the flag is set changes neither the flag nor the threads; and the
\* step that ends a thread, however it left the loop, leaves the flag false.
C39InRun == { t \in Runners : runners[t].pc \in { "init", "check", "strategy", "wait", "finally" } }
C39Spawning == { h \in Requests : requests[h].pc = "spawn" }
C39OneRunner ==
  /\ Cardinality(C39InRun) + Cardinality(C39Spawning) <= 1
  /\ whale_state.running <=> (C39InRun # {} \/ C39Spawning # {})
C39_SingleRunner ==
  /\ []C39OneRunner
  /\ [][ /\ \A h \in Requests :
             (whale_state.running /\ requests[h].pc = "idle" /\ requests'[h] # requests[h]) =>
               /\ requests'[h].pc = "idle" /\ requests'[h].last = "refused"
               /\ runners' = runners /\ whale_state' = whale_state
          /\ \A t \in Runners :
             (runners[t].pc # "ended" /\ runners'[t].pc = "ended") =>
               ~whale_state'.running ]_vars
\* a second thread runs the loop after the first one ended by an exception,
\* and a start request was refused
C39_Witness ==
  /\ \E t \in Runners : runners[t].pc = "ended" /\ runners[t].how = "exception"
  /\ \E t \in Runners : runners[t].pc = "strategy"
  /\ \E h \in Requests : requests[h].last = "refused"
  /\ whale_state.running

====
